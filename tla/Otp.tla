-------------------------------- MODULE Otp --------------------------------
(* hal/otp: commands to the one-time-programmable memory's controller, which  *)
(* may still be busy with one the driver has given up on.  A word is a pair   *)
(* of bytes, a byte 0 or 1; programming can only set.                         *)
EXTENDS Integers, Sequences

CONSTANTS Size,         \* bound: words the driver's callers use; Size is strap 14's
          MaxCalls      \* bound: calls

VARIABLES
  st, call, i,          \* the driver: its step, its call, the word it is at
  out, err, ecc, ready, \* what it returns, ECCEnabled, and that ECCEnabled is of an
                        \* Init that found the controller idle
  calls,
  key, busy, cmd, pass, rdata, fuse,    \* the controller and the fuses
  idle0, fuse0          \* history: the controller and the fuses when the call began

drv == <<st, call, i, out, err, ecc, ready, calls>>
chip == <<key, busy, cmd, pass, rdata, fuse>>
vars == <<drv, chip, idle0, fuse0>>

Byte == {0, 1}
Word == Byte \X Byte
Or(a, b) == IF a = 1 \/ b = 1 THEN 1 ELSE 0
OrWord(v, w) == <<Or(v[1], w[1]), Or(v[2], w[2])>>
Programmed(f, addr, data) ==
  [a \in DOMAIN f |-> IF a \in addr .. addr + Len(data) - 1
                      THEN OrWord(f[a], data[a - addr + 1]) ELSE f[a]]

Command(op, addr, data, mode) == [op |-> op, addr |-> addr, data |-> data, ecc |-> mode]
Call(op, off, n, data) == [op |-> op, off |-> off, n |-> n, data |-> data]

Init ==
  /\ st = "idle" /\ call = Call("none", 0, 0, <<>>) /\ i = 0
  /\ out = <<>> /\ err = "nil" /\ ecc = FALSE /\ ready = FALSE /\ calls = 0
  /\ key = FALSE /\ busy = FALSE /\ cmd = Command("read", 0, <<>>, FALSE)
  /\ pass = TRUE /\ rdata = <<0, 0>>
  /\ \E s \in Byte, w \in Word : fuse = [a \in 0 .. Size |-> IF a = Size THEN <<s, 0>> ELSE w]
  /\ idle0 = TRUE /\ fuse0 = fuse

-----------------------------------------------------------------------------
(* A call begins.  Lengths are in words, in bytes for ReadBytes.               *)
Start(c) ==
  /\ st = "idle" /\ calls < MaxCalls
  /\ call' = c /\ i' = 0 /\ out' = <<>> /\ err' = "busy" /\ calls' = calls + 1
  /\ idle0' = ~busy /\ fuse0' = fuse
  /\ UNCHANGED <<ecc, ready, busy, cmd, pass, rdata, fuse>>

OtpInit == Start(Call("Init", Size, 1, <<>>)) /\ key' = TRUE /\ st' = "issue"

Read ==
  /\ \E op \in {"ReadWords", "ReadBytes"}, n \in 0 .. Size : Start(Call(op, 0, n, <<>>))
  /\ st' = "issue" /\ UNCHANGED key

(* One word is ProgramWord's; otherwise an even number of at most 8.           *)
Program ==
  /\ \E n \in 0 .. Size, off \in 0 .. Size - 1 : \E data \in [1 .. n -> {<<1, 0>>, <<1, 1>>}] :
        off + n <= Size /\ Start(Call("ProgramWords", off, n, data))
  /\ st' = "issue" /\ UNCHANGED key

Return(e) == st' = "idle" /\ err' = e
WordsOf(c) == IF c.op = "ReadBytes" THEN (c.n + 1) \div 2 ELSE c.n
Legal(c) == c.op = "ProgramWords" => c.n = 1 \/ (c.n % 2 = 0 /\ c.n <= 8)

(* The registers and the command.  A busy controller ignores it or drops what  *)
(* it was at.  The driver neither tells the controller how many words it has   *)
(* staged nor clears WDATA: that a program burns the words staged for this     *)
(* call, none for an empty one, and no earlier ones is taken of the controller.*)
Issue ==
  /\ st = "issue"
  /\ IF ~Legal(call) THEN Return("length") /\ UNCHANGED <<busy, cmd>>
     ELSE IF call.op # "ProgramWords" /\ i = WordsOf(call) THEN Return("nil") /\ UNCHANGED <<busy, cmd>>
     ELSE /\ st' = "wait" /\ UNCHANGED err
          /\ \/ /\ busy' = TRUE
                /\ cmd' = Command(IF call.op = "ProgramWords" THEN "prog" ELSE "read",
                                  call.off + i, call.data, call.op # "Init" /\ ecc)
             \/ busy /\ UNCHANGED <<busy, cmd>>
  /\ UNCHANGED <<call, i, out, ecc, ready, calls, key, pass, rdata, fuse, idle0, fuse0>>

(* What a command that succeeded brings.                                       *)
Take ==
  CASE call.op = "Init" ->
         Return("nil") /\ ecc' = (rdata[1] = 1) /\ ready' = idle0 /\ UNCHANGED <<i, out>>
    [] call.op = "ProgramWords" -> Return("nil") /\ UNCHANGED <<i, out, ecc, ready>>
    [] call.op = "ReadWords" ->
         /\ out' = Append(out, rdata) /\ i' = i + 1 /\ st' = "issue"
         /\ UNCHANGED <<err, ecc, ready>>
    [] call.op = "ReadBytes" ->
         /\ out' = out \o IF 2 * i + 1 < call.n THEN rdata ELSE <<rdata[1]>>
         /\ i' = i + 1 /\ st' = "issue" /\ UNCHANGED <<err, ecc, ready>>

(* Mutant: the status' result is not looked at.                                *)
WaitForIdle ==
  /\ st = "wait"
  /\ IF busy THEN Return("timeout") /\ UNCHANGED <<i, out, ecc, ready>> ELSE Take
  /\ UNCHANGED <<call, calls, chip, idle0, fuse0>>

(* waitComplete: 10000 reads of the status.                                    *)
waitComplete ==
  /\ st = "wait"
  /\ IF busy THEN Return("timeout") /\ UNCHANGED <<i, out, ecc, ready>>
     ELSE IF pass THEN Take
     ELSE Return("failed") /\ UNCHANGED <<i, out, ecc, ready>>
  /\ UNCHANGED <<call, calls, chip, idle0, fuse0>>

(* The controller ends a command: without the key it fails; a word that is     *)
(* write-protected or does not verify fails, and the words before it are set.  *)
Finish ==
  /\ busy /\ busy' = FALSE
  /\ \/ ~key /\ pass' = FALSE /\ UNCHANGED <<rdata, fuse>>
     \/ key /\ cmd.op = "read" /\ pass' = TRUE /\ rdata' = fuse[cmd.addr] /\ UNCHANGED fuse
     \/ /\ key /\ cmd.op = "prog" /\ UNCHANGED rdata
        /\ \E n \in 0 .. Len(cmd.data) :
              /\ fuse' = Programmed(fuse, cmd.addr, SubSeq(cmd.data, 1, n))
              /\ pass' = (n = Len(cmd.data))
  /\ UNCHANGED <<drv, key, cmd, idle0, fuse0>>

Next == OtpInit \/ Read \/ Program \/ Issue \/ waitComplete \/ Finish
Spec == Init /\ [][Next]_vars

-----------------------------------------------------------------------------
TypeOK ==
  /\ st \in {"idle", "issue", "wait"} /\ i \in 0 .. Size /\ Len(out) \in 0 .. Size
  /\ err \in {"nil", "busy", "length", "timeout", "failed"}
  /\ fuse \in [0 .. Size -> Word] /\ calls \in 0 .. MaxCalls

(* A call that starts with the controller idle sets no fuse it was not asked   *)
(* to set, even when it fails or its command outlives it; when it returns nil, *)
(* a program has set all of them, and a read returns what the fuses hold.      *)
(* After an Init that succeeded, and had found the controller idle too, every  *)
(* command runs in the ECC mode the strap selects, whatever has failed since;  *)
(* the strap itself is read without.  An Init behind a command that had been   *)
(* given up on may take that command's word for the strap.                     *)
OtpReportsAreTrue ==
  idle0 =>
    LET target == Programmed(fuse0, call.off, call.data) IN
    /\ \A a \in 0 .. Size : fuse[a] \in {fuse0[a], target[a]}
    /\ err = "nil" =>
         CASE call.op = "ProgramWords" -> fuse = target
           [] call.op = "ReadWords" -> out = [k \in 1 .. call.n |-> fuse[k - 1]]
           [] call.op = "ReadBytes" ->
                out = [k \in 1 .. call.n |-> fuse[(k - 1) \div 2][1 + ((k - 1) % 2)]]
           [] OTHER -> ecc = (fuse[Size][1] = 1) \/ call.op = "none"
    /\ ready /\ busy /\ call.op # "Init" => cmd.ecc = (fuse[Size][1] = 1)
=============================================================================
