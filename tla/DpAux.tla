------------------------------- MODULE DpAux -------------------------------
(* hal/aspeedgfx/dpaux.go: ReadEDID over DisplayPort AUX, one transaction at a *)
(* time, against the AUX engine with its latched interrupts and a sink whose   *)
(* DDC pointer every 16-byte read moves.  A chunk of the EDID is its number.   *)
EXTENDS Integers, Sequences

CONSTANTS MaxCalls,     \* bound: ReadEDID calls
          Retries,      \* stands for auxDeferRetries
          DeferWrites   \* does the sink also defer writes

VARIABLES
  pc, blk, step, retry, \* ReadEDID: its step; the block, the transaction, the attempt
  buf, base, err, calls,\* the block read so far, the first one, what is returned
  busy, txn, int, status, rdata,    \* the engine: the transaction and what it left
  ext, ptr, hpd,        \* the sink: has an extension block, DDC pointer, is there
  clean                 \* history: the engine was quiet when the call began

drv == <<pc, blk, step, retry, buf, base, err, calls>>
engine == <<busy, txn, int, status, rdata>>
sink == <<ext, ptr, hpd>>
vars == <<drv, engine, sink, clean>>

(* readEDIDBlock: set the pointer, start reading, eight chunks, stop.          *)
Txn(s) == CASE s = 1 -> "addrWrite" [] s = 2 -> "offset" [] s = 3 -> "addrRead"
            [] s \in 4 .. 11 -> "read" [] s = 12 -> "stop"

Init ==
  /\ pc = "idle" /\ blk = 0 /\ step = 1 /\ retry = 0 /\ buf = <<>> /\ base = <<>>
  /\ err = "none" /\ calls = 0
  /\ busy = FALSE /\ txn = <<"stop", 0>> /\ int = {} /\ status = "ack" /\ rdata = 0
  /\ ext \in BOOLEAN /\ ptr = 0 /\ hpd \in BOOLEAN /\ clean = TRUE

Block(b) == blk' = b /\ step' = 1 /\ retry' = 0 /\ buf' = <<>>

ReadEDID ==
  /\ pc = "idle" /\ calls < MaxCalls /\ calls' = calls + 1
  /\ clean' = (~busy /\ int = {})
  /\ Block(0) /\ base' = <<>>
  /\ IF hpd THEN pc' = "fire" /\ err' = "busy" ELSE UNCHANGED pc /\ err' = "nohpd"
  /\ UNCHANGED <<engine, sink>>

(* auxFire writes the command.  An engine still busy with a transaction the    *)
(* driver gave up on ignores it or drops the old one.                          *)
Fire ==
  /\ pc = "fire" /\ pc' = "wait"
  /\ \/ busy' = TRUE /\ txn' = <<Txn(step), 8 * blk>>
     \/ busy /\ UNCHANGED <<busy, txn>>
  /\ UNCHANGED <<blk, step, retry, buf, base, err, calls, int, status, rdata, sink, clean>>

Next1 == step' = step + 1 /\ retry' = 0 /\ pc' = "fire" /\ UNCHANGED <<blk, base, err>>

(* A block failed or is complete: ReadEDID's result.  The base block is usable *)
(* without the extension it announces.                                         *)
Fail(e) ==
  /\ pc' = "idle" /\ UNCHANGED <<blk, step, retry, buf, base>>
  /\ err' = IF blk = 0 THEN e ELSE "nil"
Complete ==
  IF blk = 0 /\ ext /\ buf[8] = 7
  THEN base' = buf /\ Block(1) /\ pc' = "fire" /\ UNCHANGED err
  ELSE /\ base' = (IF blk = 0 THEN buf ELSE base \o buf)
       /\ pc' = "idle" /\ err' = "nil" /\ UNCHANGED <<blk, step, retry, buf>>

(* Mutant: a deferred read is not retried.                                     *)
TakeAnyway(s) ==
  IF step = 12 THEN Complete
  ELSE /\ buf' = IF Txn(step) = "read" THEN Append(buf, rdata) ELSE buf
       /\ Next1

(* Mutant: the retries are not counted out.                                    *)
RetryForEver(s) ==
  CASE step = 12 -> Complete
    [] Txn(step) = "read" /\ s = "defer" ->
         /\ retry' = retry + 1 /\ pc' = "fire"
         /\ UNCHANGED <<blk, step, buf, base, err>>
    [] Txn(step) = "read" /\ s # "defer" -> buf' = Append(buf, rdata) /\ Next1
    [] OTHER -> UNCHANGED buf /\ Next1

(* What the caller of auxFire does with the reply: only chunk reads look at it. *)
Reply(s) ==
  CASE step = 12 -> Complete
    [] Txn(step) = "read" /\ s = "defer" ->
         IF retry + 1 = Retries THEN Fail("timeout")
         ELSE /\ retry' = retry + 1 /\ pc' = "fire"
              /\ UNCHANGED <<blk, step, buf, base, err>>
    [] Txn(step) = "read" /\ s # "defer" -> buf' = Append(buf, rdata) /\ Next1
    [] OTHER -> UNCHANGED buf /\ Next1

(* An interrupt is latched: it is cleared, and is done or timeout.             *)
Answer ==
  /\ pc = "wait" /\ int # {} /\ int' = {}
  /\ IF "done" \in int THEN Reply(status) ELSE Fail("timeout")
  /\ UNCHANGED <<calls, busy, txn, status, rdata, sink, clean>>

(* The spin budget is used up.                                                 *)
GiveUp ==
  /\ pc = "wait" /\ int = {} /\ Fail("timeout")
  /\ UNCHANGED <<calls, engine, sink, clean>>

-----------------------------------------------------------------------------
(* The engine ends a transaction: no sink, no reply; a sink may defer a read   *)
(* (or, with DeferWrites, anything) and then does nothing else.                *)
Finish ==
  /\ busy /\ busy' = FALSE
  /\ IF ~hpd THEN int' = int \cup {"timeout"} /\ UNCHANGED <<status, rdata, ptr>>
     ELSE /\ int' = int \cup {"done"}
          /\ \/ /\ txn[1] = "read" \/ DeferWrites
                /\ status' = "defer" /\ UNCHANGED <<rdata, ptr>>
             \/ /\ status' = "ack"
                /\ CASE txn[1] = "offset" -> ptr' = txn[2] /\ UNCHANGED rdata
                     [] txn[1] = "read" -> rdata' = ptr /\ ptr' = (ptr + 1) % 16
                     [] OTHER -> UNCHANGED <<ptr, rdata>>
  /\ UNCHANGED <<drv, txn, ext, hpd, clean>>

Unplug == hpd /\ hpd' = FALSE /\ UNCHANGED <<drv, engine, ext, ptr, clean>>

Next == ReadEDID \/ Fire \/ Answer \/ GiveUp \/ Finish \/ Unplug
Spec == Init /\ [][Next]_vars

-----------------------------------------------------------------------------
TypeOK ==
  /\ pc \in {"idle", "fire", "wait"} /\ step \in 1 .. 12 /\ blk \in {0, 1}
  /\ retry \in 0 .. Retries - 1 /\ Len(buf) <= 8 /\ Len(base) <= 16
  /\ err \in {"none", "busy", "nohpd", "nil", "timeout"} /\ int \subseteq {"done", "timeout"}
  /\ ptr \in 0 .. 15 /\ calls \in 0 .. MaxCalls

(* An EDID that ReadEDID returns is the sink's, chunk by chunk and in order:   *)
(* the base block, with the extension only behind a base that has one.         *)
EdidIsWhole ==
  clean /\ err = "nil" =>
    \/ base = [k \in 1 .. 8 |-> k - 1]
    \/ ext /\ base = [k \in 1 .. 16 |-> k - 1]
=============================================================================
