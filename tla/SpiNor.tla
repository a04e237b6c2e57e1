------------------------------- MODULE SpiNor -------------------------------
(* hal/spinor on top of hal/spi: goroutines that share one NOR, its mutex, the *)
(* controller's chip-select control register and the chip.  A bus Command is   *)
(* three steps (assert, clock, restore); what the driver does with the reply   *)
(* is a step of its own, so every order of two goroutines' steps is explored.  *)
EXTENDS NorChip, Sequences

CONSTANTS Procs,     \* goroutines calling the NOR
          NoProc,    \* the mutex is free
          Addrs,     \* byte addresses callers pass, legal or not
          Lens       \* buffer lengths callers pass

ASSUME CallerAssumption ==
  /\ NoProc \notin Procs
  /\ Addrs \subseteq Int
  /\ Lens \subseteq Nat

VARIABLES
  pc,        \* where each goroutine is
  call,      \* the public operation it is in with its arguments, or NoCall
  stage,     \* which Command of that operation it is running
  n,         \* WriteAt: bytes written so far; ReadAt: bytes read so far
  err,       \* the error it is going to return
  rx,        \* reply bits of its last Command
  saved,     \* Command's local copy of the CE control register
  expired,   \* its waitReady deadline has passed
  dst,       \* ReadAt's destination buffer
  mu,        \* NOR.mu: its owner, or NoProc
  ctl,       \* CE_CTRL: "auto" (memory-mapped reads) or "user" (CE asserted)
  chip,      \* the flash chip
  cause,     \* history: the call whose command the chip is executing
  clean      \* history: was the chip idle when the goroutine took the mutex

driverVars == <<pc, call, stage, n, err, rx, saved, expired, dst>>
vars == <<driverVars, mu, ctl, chip, cause, clean>>

NoCall == [kind |-> "none"]
ReadID == [kind : {"id"}]
ReadAt == [kind : {"read"}, addr : Addrs, len : Lens]
WriteAt == [kind : {"write"}, addr : Addrs, len : Lens, data : Data]
EraseBlock == [kind : {"erase"}, addr : Addrs]
Call == ReadID \cup ReadAt \cup WriteAt \cup EraseBlock

Junk == {"junk"}     \* what a window byte reads as when it is not flash content

-----------------------------------------------------------------------------
(* check: the only guard between the caller's arguments and the chip.          *)
InRange(addr, len) == addr >= 0 /\ len >= 0 /\ addr + len <= Size

EraseAligned(addr) == addr >= 0 /\ addr < Size /\ addr % EraseSize = 0

Valid(c) ==
  CASE c.kind = "id" -> TRUE
    [] c.kind = "erase" -> EraseAligned(c.addr)
    [] OTHER -> InRange(c.addr, c.len)

SmallerOf(a, b) == IF a < b THEN a ELSE b

(* Mutants: the page offset without its modulus; a chunk that ignores pages.   *)
ChunkNoModulus(c, done) == SmallerOf(PageSize - (c.addr + done), c.len - done)
ChunkWholeBuffer(c, done) == c.len - done

(* WriteAt: how many of the remaining bytes go into the page of the next one.  *)
Chunk(c, done) ==
  SmallerOf(PageSize - ((c.addr + done) % PageSize), c.len - done)

(* The cells a call is meant to change.                                        *)
Target(c) ==
  CASE c.kind = "write" -> {x \in Cells : c.addr <= x /\ x < c.addr + c.len}
    [] c.kind = "erase" -> {x \in Cells : c.addr <= x /\ x < c.addr + EraseSize}
    [] OTHER -> {}

(* NOR.Init and Controller.Init: geometry set, CE left in auto-read mode.      *)
Init ==
  /\ pc = [p \in Procs |-> "idle"]
  /\ call = [p \in Procs |-> NoCall]
  /\ stage = [p \in Procs |-> "none"]
  /\ n = [p \in Procs |-> 0]
  /\ err = [p \in Procs |-> "nil"]
  /\ rx = [p \in Procs |-> {}]
  /\ saved = [p \in Procs |-> "auto"]
  /\ expired = [p \in Procs |-> FALSE]
  /\ dst = [p \in Procs |-> <<>>]
  /\ mu = NoProc
  /\ ctl = "auto"
  /\ chip = [mem |-> [x \in Cells |-> {}], wel |-> FALSE, op |-> NoOp]
  /\ cause = NoCall
  /\ clean = [p \in Procs |-> TRUE]

(* A goroutine enters a public operation; a bad range returns before the lock. *)
Enter(p, c) ==
  /\ pc[p] = "idle"
  /\ call' = [call EXCEPT ![p] = c]
  /\ pc' = [pc EXCEPT ![p] = IF Valid(c) THEN "lock" ELSE "return"]
  /\ err' = [err EXCEPT ![p] = IF Valid(c) THEN "nil" ELSE "range"]
  /\ UNCHANGED <<stage, n, rx, saved, expired, dst, mu, ctl, chip, cause, clean>>

(* The start of a Command for stage s.                                         *)
Run(p, s) ==
  /\ pc' = [pc EXCEPT ![p] = "assert"]
  /\ stage' = [stage EXCEPT ![p] = s]

Finish(p, e) ==
  /\ pc' = [pc EXCEPT ![p] = "return"]
  /\ err' = [err EXCEPT ![p] = e]
  /\ UNCHANGED stage

(* WriteAt's loop head: program the next page, or be done.                     *)
NextPage(p, done) ==
  IF done < call[p].len THEN Run(p, "wren") /\ UNCHANGED err
                        ELSE Finish(p, "nil")

(* Mutants: an operation that does not wait for the mutex; a ReadAt that does  *)
(* not take it.                                                                *)
LockUnguarded(p) ==
  /\ pc[p] = "lock"
  /\ mu' = p
  /\ clean' = [clean EXCEPT ![p] = ~Busy(chip)]
  /\ CASE call[p].kind = "id" -> Run(p, "rdid") /\ UNCHANGED err
       [] call[p].kind = "read" -> /\ pc' = [pc EXCEPT ![p] = "window"]
                                   /\ UNCHANGED <<stage, err>>
       [] call[p].kind = "write" -> NextPage(p, 0)
       [] call[p].kind = "erase" -> Run(p, "wren") /\ UNCHANGED err
  /\ UNCHANGED <<call, n, rx, saved, expired, dst, ctl, chip, cause>>

LockNotForReads(p) ==
  IF call[p].kind = "read"
  THEN /\ pc[p] = "lock"
       /\ pc' = [pc EXCEPT ![p] = "window"]
       /\ clean' = [clean EXCEPT ![p] = ~Busy(chip)]
       /\ UNCHANGED <<call, stage, n, err, rx, saved, expired, dst, mu, ctl,
                      chip, cause>>
  ELSE mu = NoProc /\ LockUnguarded(p)

(* n.mu.Lock() and the first statement after it.                               *)
Lock(p) ==
  /\ pc[p] = "lock" /\ mu = NoProc
  /\ mu' = p
  /\ clean' = [clean EXCEPT ![p] = ~Busy(chip)]
  /\ CASE call[p].kind = "id" -> Run(p, "rdid") /\ UNCHANGED err
       [] call[p].kind = "read" -> /\ pc' = [pc EXCEPT ![p] = "window"]
                                   /\ UNCHANGED <<stage, err>>
       [] call[p].kind = "write" -> NextPage(p, 0)
       [] call[p].kind = "erase" -> Run(p, "wren") /\ UNCHANGED err
  /\ UNCHANGED <<call, n, rx, saved, expired, dst, ctl, chip, cause>>

-----------------------------------------------------------------------------
(* Device.Command, in three steps.                                             *)

(* Save CE_CTRL, switch to user mode and assert CE.                            *)
AssertCE(p) ==
  /\ pc[p] = "assert"
  /\ saved' = [saved EXCEPT ![p] = ctl]
  /\ ctl' = "user"
  /\ pc' = [pc EXCEPT ![p] = "clock"]
  /\ UNCHANGED <<call, stage, n, err, rx, expired, dst, mu, chip, cause, clean>>

(* What the chip does with the bytes, and what it answers.                     *)
Issued(p) ==
  IF call[p].kind = "erase"
  THEN EraseOp(call[p].addr)
  ELSE ProgramOp(call[p].addr + n[p], Chunk(call[p], n[p]), call[p].data)

Reply(p) ==
  CASE stage[p] = "rdid" -> IdReply(chip)
    [] stage[p] \in {"rdsr", "poll"} -> StatusBits(chip)
    [] OTHER -> {}

Effect(p) ==
  CASE stage[p] = "wren" -> WriteEnabled(chip)
    [] stage[p] = "issue" -> Started(chip, Issued(p))
    [] OTHER -> chip

(* Clock tx out and rx in; in auto-read mode the bytes do not reach the chip.  *)
Clock(p) ==
  /\ pc[p] = "clock"
  /\ IF ctl = "user"
     THEN /\ chip' = Effect(p)
          /\ rx' = [rx EXCEPT ![p] = Reply(p)]
     ELSE /\ UNCHANGED chip
          /\ rx' = [rx EXCEPT ![p] = {}]
  /\ cause' = IF chip'.op # chip.op THEN call[p] ELSE cause
  /\ pc' = [pc EXCEPT ![p] = "restore"]
  /\ UNCHANGED <<call, stage, n, err, saved, expired, dst, mu, ctl, clean>>

(* De-assert CE and restore the saved control word.                            *)
RestoreCE(p) ==
  /\ pc[p] = "restore"
  /\ ctl' = saved[p]
  /\ pc' = [pc EXCEPT ![p] = "reply"]
  /\ UNCHANGED <<call, stage, n, err, rx, saved, expired, dst, mu, chip, cause,
                 clean>>

-----------------------------------------------------------------------------
(* What each caller of Command does once it has returned.                      *)

Replied(p, s) == pc[p] = "reply" /\ stage[p] = s
KeepBus == UNCHANGED <<call, rx, saved, dst, mu, ctl, chip, cause, clean>>

GotID(p) ==
  /\ Replied(p, "rdid")
  /\ Finish(p, "nil")
  /\ UNCHANGED <<n, expired>> /\ KeepBus

(* writeEnable: WREN, then the status register must show the latch.            *)
SentWREN(p) ==
  /\ Replied(p, "wren")
  /\ Run(p, "rdsr")
  /\ UNCHANGED <<n, err, expired>> /\ KeepBus

(* Mutant: the wrong status bit.                                               *)
CheckBusyBit(p) ==
  /\ Replied(p, "rdsr")
  /\ IF "WIP" \in rx[p] THEN Run(p, "issue") /\ UNCHANGED err
                        ELSE Finish(p, "wel")
  /\ UNCHANGED <<n, expired>> /\ KeepBus

CheckLatch(p) ==
  /\ Replied(p, "rdsr")
  /\ IF "WEL" \in rx[p] THEN Run(p, "issue") /\ UNCHANGED err
                        ELSE Finish(p, "wel")
  /\ UNCHANGED <<n, expired>> /\ KeepBus

(* The program or erase command is out: waitReady sets its deadline and polls. *)
StartPolling(p) ==
  /\ Replied(p, "issue")
  /\ Run(p, "poll")
  /\ expired' = [expired EXCEPT ![p] = FALSE]
  /\ UNCHANGED <<n, err>> /\ KeepBus

(* Mutants: one look at the status is enough; the deadline is never looked at. *)
PollOnce(p) ==
  /\ Replied(p, "poll")
  /\ IF call[p].kind = "erase"
     THEN Finish(p, "nil") /\ UNCHANGED n
     ELSE LET done == n[p] + Chunk(call[p], n[p])
          IN  n' = [n EXCEPT ![p] = done] /\ NextPage(p, done)
  /\ UNCHANGED expired /\ KeepBus

PollForEver(p) ==
  /\ Replied(p, "poll") /\ "WIP" \in rx[p]
  /\ Run(p, "poll")
  /\ UNCHANGED <<n, err, expired>> /\ KeepBus

PollReady(p) ==
  /\ Replied(p, "poll") /\ "WIP" \notin rx[p]
  /\ IF call[p].kind = "erase"
     THEN Finish(p, "nil") /\ UNCHANGED n
     ELSE LET done == n[p] + Chunk(call[p], n[p])
          IN  n' = [n EXCEPT ![p] = done] /\ NextPage(p, done)
  /\ UNCHANGED expired /\ KeepBus

PollAgain(p) ==
  /\ Replied(p, "poll") /\ "WIP" \in rx[p] /\ ~expired[p]
  /\ Run(p, "poll")
  /\ UNCHANGED <<n, err, expired>> /\ KeepBus

PollTimeout(p) ==
  /\ Replied(p, "poll") /\ "WIP" \in rx[p] /\ expired[p]
  /\ Finish(p, "timeout")
  /\ UNCHANGED <<n, expired>> /\ KeepBus

-----------------------------------------------------------------------------
(* ReadWindow: one byte of the memory-mapped window.                           *)
WindowByte(a) ==
  IF a \in Cells /\ ctl = "auto" /\ ~Busy(chip) THEN chip.mem[a] ELSE Junk

ReadByte(p) ==
  /\ pc[p] = "window" /\ n[p] < call[p].len
  /\ dst' = [dst EXCEPT ![p] = Append(@, WindowByte(call[p].addr + n[p]))]
  /\ n' = [n EXCEPT ![p] = @ + 1]
  /\ UNCHANGED <<pc, call, stage, err, rx, saved, expired, mu, ctl, chip, cause,
                 clean>>

ReadDone(p) ==
  /\ pc[p] = "window" /\ n[p] >= call[p].len
  /\ Finish(p, "nil")
  /\ UNCHANGED <<n, expired>> /\ KeepBus

(* The deferred Unlock and the return to the caller.                           *)
Return(p) ==
  /\ pc[p] = "return"
  /\ mu' = IF mu = p THEN NoProc ELSE mu
  /\ pc' = [pc EXCEPT ![p] = "idle"]
  /\ call' = [call EXCEPT ![p] = NoCall]
  /\ stage' = [stage EXCEPT ![p] = "none"]
  /\ n' = [n EXCEPT ![p] = 0]
  /\ err' = [err EXCEPT ![p] = "nil"]
  /\ rx' = [rx EXCEPT ![p] = {}]
  /\ saved' = [saved EXCEPT ![p] = "auto"]
  /\ expired' = [expired EXCEPT ![p] = FALSE]
  /\ dst' = [dst EXCEPT ![p] = <<>>]
  /\ clean' = [clean EXCEPT ![p] = TRUE]
  /\ UNCHANGED <<ctl, chip, cause>>

-----------------------------------------------------------------------------
(* The chip finishes its operation, in its own time or never.                  *)
ChipFinish ==
  /\ Busy(chip)
  /\ chip' = Finished(chip)
  /\ cause' = NoCall
  /\ UNCHANGED <<driverVars, mu, ctl, clean>>

(* The clock passes the deadline of a goroutine that polls.                    *)
DeadlinePasses(p) ==
  /\ stage[p] = "poll" /\ pc[p] # "return" /\ ~expired[p]
  /\ expired' = [expired EXCEPT ![p] = TRUE]
  /\ UNCHANGED <<pc, call, stage, n, err, rx, saved, dst, mu, ctl, chip, cause,
                 clean>>

Step(p) ==
  \/ Lock(p) \/ Return(p)
  \/ AssertCE(p) \/ Clock(p) \/ RestoreCE(p)
  \/ GotID(p) \/ SentWREN(p) \/ CheckLatch(p) \/ StartPolling(p)
  \/ PollReady(p) \/ PollAgain(p) \/ PollTimeout(p)
  \/ ReadByte(p) \/ ReadDone(p)

Next ==
  \/ \E p \in Procs : \/ \E c \in Call : Enter(p, c)
                      \/ Step(p)
                      \/ DeadlinePasses(p)
  \/ ChipFinish

Spec == Init /\ [][Next]_vars

(* A goroutine that can run runs, a blocked Lock is granted in the end (Go's   *)
(* mutex hands over to a starving waiter) and time passes.  The chip promises  *)
(* nothing: it may stay busy for ever.                                         *)
Fairness ==
  \A p \in Procs : /\ WF_vars(Step(p))
                   /\ SF_vars(Lock(p))
                   /\ WF_vars(DeadlinePasses(p))

FairSpec == Spec /\ Fairness

-----------------------------------------------------------------------------
(* Properties.                                                                 *)

PCs == {"idle", "lock", "assert", "clock", "restore", "reply", "window", "return"}
Stages == {"none", "rdid", "wren", "rdsr", "issue", "poll"}
Errors == {"nil", "range", "wel", "timeout"}

(* Type invariant: in particular WriteAt's page arithmetic never counts        *)
(* backwards, and no command reaches a cell outside the chip.                  *)
TypeOK ==
  /\ pc \in [Procs -> PCs]
  /\ call \in [Procs -> Call \cup {NoCall}]
  /\ stage \in [Procs -> Stages]
  /\ n \in [Procs -> Nat]
  /\ err \in [Procs -> Errors]
  /\ rx \in [Procs -> SUBSET {"WIP", "WEL", "ID"}]
  /\ saved \in [Procs -> {"auto", "user"}]
  /\ expired \in [Procs -> BOOLEAN]
  /\ dst \in [Procs -> Seq(Cell \cup {Junk})]
  /\ mu \in Procs \cup {NoProc}
  /\ ctl \in {"auto", "user"}
  /\ chip \in ChipType
  /\ cause \in Call \cup {NoCall}
  /\ clean \in [Procs -> BOOLEAN]

InsideLock(p) ==
  \/ pc[p] \in {"assert", "clock", "restore", "reply", "window"}
  \/ pc[p] = "return" /\ err[p] # "range"

(* spinor.go:47-51: operations exclude each other; the CE is in auto-read mode *)
(* whenever no Command is on the bus, so a window read never meets user mode,  *)
(* and a Command that runs always restores auto-read.                          *)
BusExclusive ==
  /\ \A p \in Procs : InsideLock(p) => mu = p
  /\ ctl = "auto" <=> ~ \E p \in Procs : pc[p] \in {"clock", "restore"}

(* What a call reports was done: WriteAt's count bytes hold the data, and a    *)
(* nil EraseBlock leaves an erased block, with the chip idle again.            *)
Reported(p) ==
  CASE call[p].kind = "write" ->
         /\ \A x \in Cells : (call[p].addr <= x /\ x < call[p].addr + n[p])
                                => call[p].data \in chip.mem[x]
         /\ err[p] = "nil" => n[p] = call[p].len /\ ~Busy(chip)
    [] call[p].kind = "erase" ->
         err[p] = "nil" => ~Busy(chip) /\ \A x \in Target(call[p]) : chip.mem[x] = {}
    [] OTHER -> TRUE

(* A write or erase that found the chip idle reports only what is in flash     *)
(* when it returns, whatever other goroutines and the chip's timing did.       *)
ReportedIsDone ==
  \A p \in Procs : pc[p] = "return" /\ clean[p] => Reported(p)

(* The same with no condition on the chip: what spinor.go:104 and :123 say.    *)
ReportedIsDoneAlways == \A p \in Procs : pc[p] = "return" => Reported(p)

(* A ReadAt that found the chip idle returns the flash contents of one instant:*)
(* no byte from user mode, none from the middle of another caller's WriteAt.   *)
ReadSeesFlash ==
  \A p \in Procs :
    (pc[p] = "return" /\ call[p].kind = "read" /\ err[p] = "nil" /\ clean[p])
      => dst[p] = [i \in 1 .. call[p].len |-> chip.mem[call[p].addr + i - 1]]

(* The write-enable check never fails an operation that found the chip idle:   *)
(* a valid call then ends well or with waitReady's timeout.                    *)
OnlyTimeoutFails ==
  \A p \in Procs : pc[p] = "return" /\ clean[p] /\ Valid(call[p])
                      => err[p] \in {"nil", "timeout"}

(* No byte changes outside the range of the call whose command is running,     *)
(* even after that call timed out and others came: page programs never wrap,   *)
(* and two volumes of one chip cannot damage each other.                       *)
OnlyTargetChanges ==
  [][\A x \in Cells : chip'.mem[x] # chip.mem[x] => x \in Target(cause)]_vars

(* Every call returns, on a chip that may hang: the deadline ends every poll   *)
(* and the mutex is always released.                                           *)
EveryCallReturns ==
  \A p \in Procs : pc[p] # "idle" ~> pc[p] = "idle"
=============================================================================
