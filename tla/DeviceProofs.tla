---------------------------- MODULE DeviceProofs ----------------------------
(* Proofs about the drivers that share nothing, for any number of calls and   *)
(* any disturbance of what they drive.  As in MCDevices each driver is an     *)
(* instance with variables of its own; a theorem is about one of them.        *)
EXTENDS Devices, SequenceTheorems, WellFoundedInduction, TLAPS

-----------------------------------------------------------------------------
(* The EHCI's root port.                                                      *)

(* A reset is asserted at most three times.                                   *)
PortAttempts == portPc \in {"clear", "cleared", "reset", "assert"} => attempt < 3

(* From the read before PR is released, the enable of a high-speed device that *)
(* stays put is in the value written back, in the port, and in the result.    *)
PortEnabled ==
  stable /\ dev = "hs" =>
    /\ portPc = "release" => "PED" \in ps
    /\ portPc \in {"release", "settle", "after", "idle"} => "PED" \in portsc
    /\ portPc = "idle" => "PED" \in after

PortInv == Port!TypeOK /\ PortAttempts /\ Port!SwapIsSeen /\ PortEnabled

(* A write of PORTSC that leaves Port Power and the change bits alone keeps   *)
(* the change bits and the status, and disables the port only if told to.     *)
LEMMA QuietWrite ==
  ASSUME portsc \subseteq Port!Bits,
         NEW v, v \subseteq Port!Bits, v \cap Port!RWC = {}, Port!WritePort(v)
  PROVE  /\ portsc' \subseteq Port!Bits /\ ending' \in BOOLEAN
         /\ \A b \in Port!RWC \cup {"CCS"} : b \in portsc' <=> b \in portsc
         /\ "PED" \in portsc' <=> "PED" \in portsc /\ "PED" \in v
  BY DEF Port!WritePort, Port!Bits, Port!RWC

(* Initially no call has begun.                                               *)
LEMMA PortInit == Port!Init => PortInv
<1> SUFFICES ASSUME Port!Init PROVE PortInv
  OBVIOUS
<1>1. Port!TypeOK
  <2>1. /\ dev \in {"none", "fs", "hs"}
        /\ portsc = {"PP"} \/ portsc = {"PP", "CCS", "CSC"}
    BY DEF Port!Init
  <2>2. portsc \subseteq Port!Bits
    BY <2>1 DEF Port!Bits, Port!RWC
  <2>3. portCalls \in 0 .. MaxCalls /\ plugs \in 0 .. MaxPlugs /\ attempt \in 0 .. 3
    BY Bounds DEF Port!Init
  <2>4. ps \subseteq Port!Bits /\ after \subseteq Port!Bits
        /\ portPc = "idle" /\ ending = FALSE
    BY DEF Port!Init
  <2> QED
    BY <2>1, <2>2, <2>3, <2>4 DEF Port!TypeOK
<1> QED
  BY <1>1 DEF Port!Init, PortInv, PortAttempts, Port!SwapIsSeen, PortEnabled

(* Every step of the driver keeps the invariant.                              *)
LEMMA PortDriverStep ==
  ASSUME PortInv,
         \/ Port!PollConnect \/ Port!ResetPort \/ Port!clearChangeRead \/ Port!clearChange
         \/ Port!resetRead \/ Port!AssertReset \/ Port!releaseRead \/ Port!ReleaseReset
         \/ Port!Settle \/ Port!Return
  PROVE  PortInv'
<1> USE Bounds DEF PortInv, Port!TypeOK, PortAttempts, Port!SwapIsSeen, PortEnabled,
                   Port!Goto, Port!port
<1>1. CASE Port!PollConnect
  BY <1>1 DEF Port!PollConnect
<1>2. CASE Port!ResetPort
  BY <1>2 DEF Port!ResetPort
<1>3. CASE Port!clearChangeRead \/ Port!resetRead \/ Port!releaseRead
  BY <1>3 DEF Port!clearChangeRead, Port!resetRead, Port!releaseRead, Port!Read
<1>4. CASE Port!clearChange
  <2>1. portsc' \subseteq Port!Bits /\ ending' \in BOOLEAN
    BY <1>4 DEF Port!clearChange, Port!WritePort, Port!Bits, Port!RWC
  <2> QED
    BY <1>4, <2>1 DEF Port!clearChange, Port!WritePort
<1>5. CASE Port!AssertReset
  <2> DEFINE v == (ps \ (Port!RWC \cup {"PED"})) \cup {"PR"}
  <2>1. v \subseteq Port!Bits /\ v \cap Port!RWC = {} /\ Port!WritePort(v)
    BY <1>5 DEF Port!AssertReset, Port!Bits, Port!RWC
  <2>2. /\ portsc' \subseteq Port!Bits /\ ending' \in BOOLEAN
        /\ "CSC" \in portsc' <=> "CSC" \in portsc
    BY <2>1, QuietWrite DEF Port!RWC
  <2>3. attempt' = attempt + 1 /\ attempt < 3 /\ attempt \in 0 .. 3
    BY <1>5 DEF Port!AssertReset, PortAttempts
  <2> QED
    BY <1>5, <2>1, <2>2, <2>3
       DEF Port!AssertReset, Port!WritePort
<1>6. CASE Port!ReleaseReset
  <2> DEFINE v == ps \ (Port!RWC \cup {"PR"})
  <2>1. v \subseteq Port!Bits /\ v \cap Port!RWC = {} /\ Port!WritePort(v)
    BY <1>6 DEF Port!ReleaseReset, Port!Bits, Port!RWC
  <2>2. /\ portsc' \subseteq Port!Bits /\ ending' \in BOOLEAN
        /\ "CSC" \in portsc' <=> "CSC" \in portsc
        /\ "PED" \in portsc' <=> "PED" \in portsc /\ "PED" \in ps
    BY <2>1, QuietWrite DEF Port!RWC
  <2> QED
    BY <1>6, <2>1, <2>2
       DEF Port!ReleaseReset, Port!WritePort
<1>7. CASE Port!Settle \/ Port!Return
  BY <1>7 DEF Port!Settle, Port!Return
<1> QED
  BY <1>1, <1>2, <1>3, <1>4, <1>5, <1>6, <1>7

(* So does every step of the controller, the user and the bus.                *)
LEMMA PortOtherStep ==
  ASSUME PortInv,
         Port!EnableInReset \/ Port!EndReset \/ Port!Plug \/ Port!Unplug \/ Port!PortError
  PROVE  PortInv'
<1> USE Bounds DEF PortInv, Port!TypeOK, PortAttempts, Port!SwapIsSeen, PortEnabled,
                   Port!drv
<1>1. CASE Port!EnableInReset
  BY <1>1 DEF Port!EnableInReset, Port!Bits
<1>2. CASE Port!EndReset
  BY <1>2 DEF Port!EndReset
<1>3. CASE Port!Plug
  BY <1>3 DEF Port!Plug, Port!Disturb, Port!Bits, Port!RWC
<1>4. CASE Port!Unplug
  BY <1>4 DEF Port!Unplug, Port!Disturb, Port!Bits, Port!RWC
<1>5. CASE Port!PortError
  BY <1>5 DEF Port!PortError, Port!Disturb, Port!Bits, Port!RWC
<1> QED
  BY <1>1, <1>2, <1>3, <1>4, <1>5

(* The inductive invariant of the root port.                                  *)
THEOREM PortInvHolds == Port!Spec => []PortInv
<1>1. PortInv /\ UNCHANGED Port!vars => PortInv'
  BY DEF PortInv, Port!TypeOK, PortAttempts, Port!SwapIsSeen, PortEnabled, Port!vars,
         Port!drv, Port!port
<1>2. PortInv /\ [Port!Next]_(Port!vars) => PortInv'
  BY <1>1, PortDriverStep, PortOtherStep DEF Port!Next
<1> QED
  BY PortInit, <1>2, PTL DEF Port!Spec

(* Type correctness of ResetPort's loop and of PORTSC.                        *)
THEOREM PortTypes == Port!Spec => []Port!TypeOK
<1>1. PortInv => Port!TypeOK
  BY DEF PortInv
<1> QED
  BY <1>1, PortInvHolds, PTL

(* However often devices are plugged, swapped and unplugged while ResetPort   *)
(* reads and writes PORTSC back (ehci.go:484-571), no connect change since the *)
(* last clearChange is acknowledged by accident.                              *)
THEOREM SwapsAreSeen == Port!Spec => []SwapIsSeen
<1>1. PortInv => SwapIsSeen
  BY DEF PortInv, SwapIsSeen
<1> QED
  BY <1>1, PortInvHolds, PTL

(* And the enable that the controller sets in the middle of the reset of a    *)
(* high-speed device that stays put survives the release of PR (resetOnce).   *)
THEOREM StableStaysEnabled == Port!Spec => []StableIsEnabled
<1>1. PortInv => StableIsEnabled
  BY DEF PortInv, PortEnabled, StableIsEnabled, Port!StableIsEnabled
<1> QED
  BY <1>1, PortInvHolds, PTL

-----------------------------------------------------------------------------
(* The video engine.                                                          *)

(* Only DetectMode and CaptureFrame wait.                                     *)
VideoCall ==
  pc # "idle" => /\ calls > 0 /\ err = "busy" /\ call \in {"DetectMode", "CaptureFrame"}
                 /\ pc = "settle" => call = "CaptureFrame"

(* A frame's compression ends with this call's bytes, or with an error that   *)
(* ended its capture too.                                                     *)
FrameIsOurs ==
  \/ "error" \in int /\ cap = 0 /\ comp = 0 /\ (pc = "settle" => late)
  \/ /\ cap = 0 => source = Video!Frame(calls, fmt)
     /\ comp = 0 => cap = 0 /\ stream = Video!Frame(calls, fmt)

(* A call that found the engine idle has the engine to itself.                *)
EngineIsOurs ==
  quiet =>
    /\ pc = "trigger" => cap = 0 /\ comp = 0 /\ det = 0 /\ int = {}
    /\ pc = "wait" /\ call = "DetectMode" =>
         cap = 0 /\ comp = 0 /\ det \in {0, calls} /\ ("modeDetect" \in int => geometry = calls)
    /\ pc \in {"wait", "settle"} /\ call = "CaptureFrame" =>
         cap \in {0, calls} /\ comp \in {0, calls} /\ det = 0 /\ FrameIsOurs
    /\ err = "nil" /\ call = "CaptureFrame" => cap = 0 /\ comp = 0

VideoInv == Video!TypeOK /\ VideoCall /\ EngineIsOurs /\ Video!ResultIsFresh

(* Initially the engine is idle.                                              *)
LEMMA VideoInit == Video!Init => VideoInv
<1> SUFFICES ASSUME Video!Init PROVE VideoInv
  OBVIOUS
<1>1. Video!TypeOK
  BY Bounds DEF Video!Init, Video!TypeOK
<1> QED
  BY <1>1 DEF Video!Init, VideoInv, VideoCall, EngineIsOurs, Video!ResultIsFresh

(* A call that does not wait leaves no result behind.                         *)
LEMMA VideoOneStep ==
  ASSUME VideoInv,
         \/ Video!Reset \/ Video!Configure \/ Video!InitForCapture \/ Video!Trigger
         \/ Video!AckInterrupts
  PROVE  VideoInv'
<1>1. /\ pc = "idle" /\ pc' = "idle" /\ err' = "none"
      /\ calls < MaxCalls /\ calls' = calls + 1
      /\ UNCHANGED <<source, stream, size, geometry>>
  BY DEF Video!Reset, Video!Configure, Video!InitForCapture, Video!Trigger,
         Video!AckInterrupts, Video!Begin
<1>2. calls' \in 0 .. MaxCalls
  BY <1>1, Bounds DEF VideoInv, Video!TypeOK
<1>3. cap' \in {0, cap, calls'} /\ comp' \in {0, comp, calls'} /\ det' \in {0, det, calls'}
  BY DEF Video!Reset, Video!Configure, Video!InitForCapture, Video!Trigger,
         Video!AckInterrupts, Video!Stopped, Video!PullFrame, Video!PullDetect, Video!Pulled
<1>4. int' \in {int, {}}
  BY DEF Video!Reset, Video!Configure, Video!InitForCapture, Video!Trigger,
         Video!AckInterrupts, Video!Stopped
<1>5. Video!TypeOK'
  <2>1. {cap', comp', det'} \subseteq 0 .. MaxCalls
    BY <1>1, <1>2, <1>3, Bounds DEF VideoInv, Video!TypeOK
  <2> QED
    BY <1>1, <1>2, <1>4, <2>1 DEF VideoInv, Video!TypeOK
<1> QED
  BY <1>1, <1>5 DEF VideoInv, VideoCall, EngineIsOurs, Video!ResultIsFresh

(* Each step of DetectMode and CaptureFrame.                                  *)
LEMMA VideoWaitStep ==
  ASSUME VideoInv,
         Video!Waiting \/ Video!Pull \/ Video!WaitInterrupt \/ Video!WaitIdle \/ Video!Deadline
  PROVE  VideoInv'
<1> USE DEF VideoInv, VideoCall, EngineIsOurs
<1>1. CASE Video!Waiting
  <2>1. /\ pc = "idle" /\ pc' = "trigger" /\ err' = "busy" /\ int' = {}
        /\ call' \in {"DetectMode", "CaptureFrame"}
        /\ calls < MaxCalls /\ calls' = calls + 1
        /\ quiet' => cap = 0 /\ comp = 0 /\ det = 0
        /\ UNCHANGED <<fmt, cap, comp, det, source, stream, size, geometry>>
    BY <1>1 DEF Video!Waiting, Video!Begin
  <2>2. calls' \in 0 .. MaxCalls /\ calls' > 0
    BY <2>1, Bounds DEF Video!TypeOK
  <2>3. Video!TypeOK'
    BY <2>1, <2>2 DEF Video!TypeOK
  <2> QED
    BY <2>1, <2>2, <2>3 DEF Video!ResultIsFresh
<1>2. CASE Video!Pull
  <2>1. /\ pc = "trigger" /\ pc' = "wait"
        /\ UNCHANGED <<call, calls, err, got, fmt, int, source, stream, size, geometry,
                       quiet, late>>
    BY <1>2 DEF Video!Pull
  <2>2. /\ cap' \in {cap, calls} /\ comp' \in {comp, calls} /\ det' \in {det, calls}
        /\ call = "DetectMode" => cap' = cap /\ comp' = comp
        /\ call = "CaptureFrame" => /\ det' = det
                                    /\ cap = 0 => cap' = calls
                                    /\ comp = 0 => comp' = calls
    BY <1>2, <2>1 DEF Video!Pull, Video!PullFrame, Video!PullDetect, Video!Pulled
  <2>3. Video!TypeOK'
    BY <2>1, <2>2 DEF Video!TypeOK
  <2>4. calls # 0
    BY <2>1 DEF Video!TypeOK
  <2> QED
    BY <2>1, <2>2, <2>3, <2>4 DEF Video!ResultIsFresh, FrameIsOurs
<1>3. CASE Video!WaitInterrupt
  <2>1. /\ pc = "wait" /\ int' = {}
        /\ UNCHANGED <<call, calls, fmt, cap, comp, det, source, stream, size, geometry,
                       quiet, late>>
    BY <1>3 DEF Video!WaitInterrupt
  <2>2. \/ pc' = "idle" /\ err' = "hardware" /\ got' = got
        \/ "error" \notin int /\ pc' = pc /\ err' = err /\ got' = got
        \/ /\ call = "DetectMode" /\ "modeDetect" \in int
           /\ pc' = "idle" /\ err' = "nil" /\ got' = <<Video!None, geometry>>
        \/ "error" \notin int /\ call # "DetectMode" /\ pc' = "settle" /\ UNCHANGED <<err, got>>
    BY <1>3, <2>1 DEF Video!WaitInterrupt, Video!Return, Video!Errors, Video!Mask
  <2>3. Video!TypeOK'
    BY <2>1, <2>2 DEF Video!TypeOK
  <2>4. VideoCall'
    BY <2>1, <2>2
  <2>5. EngineIsOurs' /\ Video!ResultIsFresh'
    BY <2>1, <2>2 DEF Video!ResultIsFresh, FrameIsOurs
  <2> QED
    BY <2>3, <2>4, <2>5
<1>4. CASE Video!WaitIdle
  <2>1. /\ pc = "settle" /\ cap = 0 /\ comp = 0 /\ pc' = "idle" /\ err' = "nil"
        /\ got' = <<stream, Video!Least(size, Room)>>
        /\ UNCHANGED <<call, calls, fmt, cap, comp, det, int, source, stream, size, geometry,
                       quiet, late>>
    BY <1>4 DEF Video!WaitIdle, Video!Return, Video!Bytes, Video!engine
  <2>2. Video!TypeOK'
    BY <2>1 DEF Video!TypeOK
  <2>3. call = "CaptureFrame"
    BY <2>1
  <2> QED
    BY <2>1, <2>2, <2>3 DEF Video!ResultIsFresh, FrameIsOurs
<1>5. CASE Video!Deadline
  <2>1. /\ pc' = "idle" /\ err' = "timeout"
        /\ UNCHANGED <<call, calls, fmt, cap, comp, det, int, source, stream, size, geometry,
                       quiet, late>>
    BY <1>5 DEF Video!Deadline, Video!Return, Video!engine
  <2> QED
    BY <2>1 DEF Video!TypeOK, Video!ResultIsFresh
<1> QED
  BY <1>1, <1>2, <1>3, <1>4, <1>5

(* Each step of the engine.                                                   *)
LEMMA VideoEngineStep ==
  ASSUME VideoInv,
         Video!Captured \/ Video!Compressed \/ Video!Detected \/ Video!HardwareError
  PROVE  VideoInv'
<1> USE DEF VideoInv, VideoCall, EngineIsOurs, FrameIsOurs, Video!drv
<1>1. CASE Video!Captured
  <2>1. Video!TypeOK'
    BY <1>1, Bounds DEF Video!Captured, Video!TypeOK
  <2> QED
    BY <1>1, <2>1 DEF Video!Captured, Video!ResultIsFresh, Video!TypeOK
<1>2. CASE Video!Compressed
  <2>1. Video!TypeOK'
    BY <1>2, Bounds DEF Video!Compressed, Video!TypeOK
  <2> QED
    BY <1>2, <2>1 DEF Video!Compressed, Video!ResultIsFresh, Video!TypeOK
<1>3. CASE Video!Detected
  <2>1. Video!TypeOK'
    BY <1>3, Bounds DEF Video!Detected, Video!TypeOK
  <2> QED
    BY <1>3, <2>1 DEF Video!Detected, Video!ResultIsFresh, Video!TypeOK
<1>4. CASE Video!HardwareError
  <2>1. Video!TypeOK'
    BY <1>4, Bounds DEF Video!HardwareError, Video!TypeOK, Video!Errors
  <2> QED
    BY <1>4, <2>1 DEF Video!HardwareError, Video!ResultIsFresh, Video!TypeOK, Video!Errors
<1> QED
  BY <1>1, <1>2, <1>3, <1>4

(* The inductive invariant of the video engine.                               *)
THEOREM VideoInvHolds == Video!Spec => []VideoInv
<1>1. VideoInv /\ UNCHANGED Video!vars => VideoInv'
  BY DEF VideoInv, Video!TypeOK, VideoCall, EngineIsOurs, FrameIsOurs, Video!ResultIsFresh,
         Video!vars, Video!drv, Video!engine
<1>2. VideoInv /\ [Video!Next]_(Video!vars) => VideoInv'
  BY <1>1, VideoOneStep, VideoWaitStep, VideoEngineStep DEF Video!Next
<1> QED
  BY VideoInit, <1>2, PTL DEF Video!Spec

(* A frame or a mode that videoengine.go returns to a call that found the     *)
(* engine idle was captured, compressed and measured for that very call, in   *)
(* the format configured, however many calls were given up on before; but for *)
(* a compression error that comes after the capture interrupt was seen, which *)
(* CaptureFrame does not notice (late).                                       *)
THEOREM ResultsAreFresh == Video!Spec => []ResultIsFresh
<1>1. VideoInv => ResultIsFresh
  BY DEF VideoInv, ResultIsFresh
<1> QED
  BY <1>1, VideoInvHolds, PTL

-----------------------------------------------------------------------------
(* The OTP controller.                                                        *)

(* A call's arguments, and how many of its words and bytes have been read.    *)
Reading == otpCall.op \in {"ReadWords", "ReadBytes"}
Words == Otp!WordsOf(otpCall)
BytesBy(k) == IF 2 * k <= otpCall.n THEN 2 * k ELSE otpCall.n
Target == Otp!Programmed(fuse0, otpCall.off, otpCall.data)
Strap == fuse[Size][1] = 1
Fuses == [0 .. Size -> Otp!Word]

OtpTypes ==
  /\ otpSt \in {"idle", "issue", "wait"} /\ otpI \in Nat
  /\ otpErr \in {"nil", "busy", "length", "timeout", "failed"} /\ otpCalls \in 0 .. MaxCalls
  /\ fuse \in Fuses /\ fuse0 \in Fuses /\ otpData \in Otp!Word
  /\ ecc \in BOOLEAN /\ ready \in BOOLEAN /\ otpBusy \in BOOLEAN /\ otpIdle \in BOOLEAN

(* The call: the arguments the driver's callers give, and how far it is.      *)
OtpCall ==
  /\ otpCall.op \in {"none", "Init", "ReadWords", "ReadBytes", "ProgramWords"}
  /\ otpCall.n \in Nat /\ otpCall.off \in 0 .. Size
  /\ otpCall.op = "Init" => otpCall.off = Size /\ otpCall.n = 1
  /\ otpCall.op = "ProgramWords" => /\ otpCall.data \in Seq(Otp!Word)
                                    /\ otpCall.off + Len(otpCall.data) <= Size
  /\ otpCall.op = "none" => otpCall.off = 0 /\ otpCall.data = <<>>
  /\ otpSt # "idle" => otpErr = "busy" /\ otpCall.op # "none"

OtpProgress ==
  /\ Reading => otpCall.off = 0 /\ otpCall.n <= Size /\ otpI <= Words
  /\ ~Reading => otpI = 0 /\ out = <<>>
  /\ otpCall.op = "ReadWords" => out \in Seq(Otp!Word) /\ Len(out) = otpI
  /\ otpCall.op = "ReadBytes" => out \in Seq(Otp!Byte) /\ Len(out) = BytesBy(otpI)
  /\ otpSt = "wait" /\ Reading => otpI < Words

(* The controller's last command; in particular none programs the strap.      *)
OtpCommand ==
  /\ cmd.op \in {"read", "prog"} /\ cmd.addr \in 0 .. Size /\ cmd.ecc \in BOOLEAN
  /\ cmd.op = "prog" => cmd.data \in Seq(Otp!Word) /\ cmd.addr + Len(cmd.data) <= Size
  /\ ready => (ecc <=> Strap)

(* A call that found the controller idle: the command in flight is its own,   *)
(* and the fuses are as they were until a program of its own ends.            *)
OtpOurs ==
  otpIdle =>
    /\ otpSt = "issue" \/ otpErr = "nil" => ~otpBusy
    /\ otpBusy \/ otpSt = "wait" =>
         /\ cmd.op = IF otpCall.op = "ProgramWords" THEN "prog" ELSE "read"
         /\ otpCall.op = "ProgramWords" => cmd.addr = otpCall.off /\ cmd.data = otpCall.data
         /\ otpCall.op # "Init" => (cmd.ecc <=> ecc)
    /\ otpSt = "wait" => cmd.addr = otpCall.off + otpI
    /\ otpSt = "wait" /\ ~otpBusy /\ pass =>
         IF otpCall.op = "ProgramWords" THEN fuse = Target ELSE otpData = fuse[cmd.addr]
    /\ otpBusy \/ otpSt = "issue" \/ otpCall.op # "ProgramWords" => fuse = fuse0
    /\ \A a \in 0 .. Size : fuse[a] \in {fuse0[a], Target[a]}

(* What it has read so far is what the fuses hold; when it is over, all of it. *)
OtpReport ==
  otpIdle =>
    /\ otpSt # "idle" \/ otpErr = "nil" =>
         /\ otpCall.op = "ReadWords" => \A k \in 1 .. Len(out) : out[k] = fuse[k - 1]
         /\ otpCall.op = "ReadBytes" =>
              \A k \in 1 .. Len(out) : out[k] = fuse[(k - 1) \div 2][1 + ((k - 1) % 2)]
    /\ otpErr = "nil" =>
         /\ otpCall.op = "ProgramWords" => fuse = Target
         /\ Reading => otpI = Words
         /\ otpCall.op = "Init" => (ecc <=> Strap)

OtpInv == OtpTypes /\ OtpCall /\ OtpProgress /\ OtpCommand /\ OtpOurs /\ OtpReport

(* Programming words up to the strap leaves the strap as it was.              *)
LEMMA ProgramWords ==
  ASSUME Size \in Nat, NEW f \in Fuses, NEW a \in 0 .. Size, NEW d \in Seq(Otp!Word),
         a + Len(d) <= Size
  PROVE  Otp!Programmed(f, a, d) \in Fuses /\ Otp!Programmed(f, a, d)[Size] = f[Size]
<1>1. ASSUME NEW v \in Otp!Word, NEW w \in Otp!Word PROVE Otp!OrWord(v, w) \in Otp!Word
  BY DEF Otp!OrWord, Otp!Or, Otp!Word, Otp!Byte
<1>2. Len(d) \in Nat /\ \A k \in 1 .. Len(d) : d[k] \in Otp!Word
  BY LenProperties
<1>3. ASSUME NEW b \in a .. a + Len(d) - 1 PROVE d[b - a + 1] \in Otp!Word
  BY <1>2
<1>4. ASSUME NEW b \in 0 .. Size PROVE f[b] \in Otp!Word
  BY DEF Fuses
<1>5. DOMAIN f = 0 .. Size
  BY DEF Fuses
<1> QED
  BY <1>1, <1>2, <1>3, <1>4, <1>5 DEF Otp!Programmed, Fuses

(* A program that stops early sets some of its words, and no other.           *)
LEMMA ProgramPart ==
  ASSUME Size \in Nat, NEW f \in Fuses, NEW a \in 0 .. Size, NEW d \in Seq(Otp!Word),
         a + Len(d) <= Size, NEW n \in 0 .. Len(d)
  PROVE  LET g == Otp!Programmed(f, a, SubSeq(d, 1, n)) IN
         /\ g \in Fuses /\ g[Size] = f[Size]
         /\ \A b \in 0 .. Size : g[b] \in {f[b], Otp!Programmed(f, a, d)[b]}
         /\ n = Len(d) => g = Otp!Programmed(f, a, d)
<1> DEFINE e == SubSeq(d, 1, n)
<1>1. Len(d) \in Nat /\ \A k \in 1 .. Len(d) : d[k] \in Otp!Word
  BY LenProperties
<1>2. \A k \in 1 .. n : d[k] \in Otp!Word
  BY <1>1
<1>3. e \in Seq(Otp!Word) /\ Len(e) = n /\ \A k \in 1 .. n : e[k] = d[k]
  BY <1>1, <1>2, SubSeqProperties
<1> HIDE DEF e
<1>4. Otp!Programmed(f, a, e) \in Fuses /\ Otp!Programmed(f, a, e)[Size] = f[Size]
  BY <1>1, <1>3, ProgramWords
<1>5. DOMAIN f = 0 .. Size
  BY DEF Fuses
<1>6. \A b \in 0 .. Size : Otp!Programmed(f, a, e)[b] \in {f[b], Otp!Programmed(f, a, d)[b]}
  <2> TAKE b \in 0 .. Size
  <2>1. CASE b \in a .. a + n - 1
    <3>1. b - a + 1 \in 1 .. n /\ b \in a .. a + Len(d) - 1
      BY <1>1, <2>1
    <3>2. e[b - a + 1] = d[b - a + 1]
      BY <3>1, <1>3
    <3> QED
      BY <1>3, <1>5, <2>1, <3>1, <3>2 DEF Otp!Programmed
  <2>2. CASE b \notin a .. a + n - 1
    BY <1>3, <1>5, <2>2 DEF Otp!Programmed
  <2> QED
    BY <2>1, <2>2
<1>7. n = Len(d) => e = d
  BY <1>1, <1>3, SeqEqual
<1> QED
  BY <1>4, <1>6, <1>7 DEF e

(* Initially no command has been given.                                       *)
LEMMA OtpStart == Otp!Init => OtpInv
<1> SUFFICES ASSUME Otp!Init PROVE OtpInv
  OBVIOUS
<1>1. fuse \in Fuses /\ fuse0 = fuse
  BY Bounds DEF Otp!Init, Fuses, Otp!Word, Otp!Byte
<1>2. OtpTypes
  <2>1. otpData \in Otp!Word
    BY DEF Otp!Init, Otp!Word, Otp!Byte
  <2>2. otpCalls \in 0 .. MaxCalls
    BY Bounds DEF Otp!Init
  <2> QED
    BY <1>1, <2>1, <2>2 DEF OtpTypes, Otp!Init
<1>3. OtpCall /\ OtpProgress /\ OtpCommand
  BY Bounds DEF Otp!Init, Otp!Call, Otp!Command, OtpCall, OtpProgress, OtpCommand, Reading
<1>4. OtpOurs /\ OtpReport
  BY <1>1 DEF Otp!Init, Otp!Call, Otp!Command, OtpOurs, OtpReport, Reading, Strap
<1> QED
  BY <1>2, <1>3, <1>4 DEF OtpInv

(* A call begins, with the controller idle or still at an earlier command.    *)
LEMMA OtpBegin ==
  ASSUME OtpInv, Otp!OtpInit \/ Otp!Read \/ Otp!Program
  PROVE  OtpInv'
<1>1. \E c : /\ Otp!Start(c) /\ otpSt' = "issue"
             /\ c.op \in {"Init", "ReadWords", "ReadBytes", "ProgramWords"}
             /\ c.n \in Nat /\ c.off \in 0 .. Size
             /\ c.op = "Init" => c.off = Size /\ c.n = 1
             /\ c.op \in {"ReadWords", "ReadBytes"} => c.off = 0 /\ c.n <= Size
             /\ c.op = "ProgramWords" => /\ c.data \in Seq(Otp!Word)
                                         /\ c.off + Len(c.data) <= Size
  <2>1. CASE Otp!OtpInit
    <3> WITNESS Otp!Call("Init", Size, 1, <<>>)
    <3> QED
      BY <2>1, Bounds DEF Otp!OtpInit, Otp!Call
  <2>2. CASE Otp!Read
    <3>1. PICK op \in {"ReadWords", "ReadBytes"}, n \in 0 .. Size :
            Otp!Start(Otp!Call(op, 0, n, <<>>))
      BY <2>2 DEF Otp!Read
    <3> WITNESS Otp!Call(op, 0, n, <<>>)
    <3> QED
      BY <2>2, <3>1, Bounds DEF Otp!Read, Otp!Call
  <2>3. CASE Otp!Program
    <3>1. PICK n \in 0 .. Size, off \in 0 .. Size - 1 :
            \E d \in [1 .. n -> {<<1, 0>>, <<1, 1>>}] :
               off + n <= Size /\ Otp!Start(Otp!Call("ProgramWords", off, n, d))
      BY <2>3 DEF Otp!Program
    <3>2. PICK d \in [1 .. n -> {<<1, 0>>, <<1, 1>>}] :
            off + n <= Size /\ Otp!Start(Otp!Call("ProgramWords", off, n, d))
      BY <3>1
    <3>3. d \in Seq(Otp!Word) /\ Len(d) = n
      BY <3>2, Bounds DEF Otp!Word, Otp!Byte
    <3> WITNESS Otp!Call("ProgramWords", off, n, d)
    <3> QED
      BY <2>3, <3>2, <3>3, Bounds DEF Otp!Program, Otp!Call
  <2> QED
    BY <2>1, <2>2, <2>3
<1>2. PICK c : /\ Otp!Start(c) /\ otpSt' = "issue"
               /\ c.op \in {"Init", "ReadWords", "ReadBytes", "ProgramWords"}
               /\ c.n \in Nat /\ c.off \in 0 .. Size
               /\ c.op = "Init" => c.off = Size /\ c.n = 1
               /\ c.op \in {"ReadWords", "ReadBytes"} => c.off = 0 /\ c.n <= Size
               /\ c.op = "ProgramWords" => /\ c.data \in Seq(Otp!Word)
                                           /\ c.off + Len(c.data) <= Size
  BY <1>1
<1>3. /\ otpCall' = c /\ otpI' = 0 /\ out' = <<>> /\ otpErr' = "busy" /\ otpCalls' \in 0 .. MaxCalls
      /\ otpIdle' = ~otpBusy /\ fuse0' = fuse
      /\ UNCHANGED <<ecc, ready, otpBusy, cmd, pass, otpData, fuse>>
  BY <1>2, Bounds DEF Otp!Start, OtpInv, OtpTypes
<1>4. OtpTypes'
  BY <1>2, <1>3 DEF OtpInv, OtpTypes
<1>5. OtpCall'
  BY <1>2, <1>3 DEF OtpCall
<1>6. OtpProgress' /\ OtpCommand'
  BY <1>2, <1>3
     DEF OtpInv, OtpProgress, OtpCommand, Reading, Words, Otp!WordsOf, BytesBy, Strap
<1>7. OtpOurs'
  <2>1. (otpIdle' => ~otpBusy') /\ fuse' = fuse0'
    BY <1>3
  <2>2. \A a \in 0 .. Size : fuse'[a] \in {fuse0'[a], Target'[a]}
    BY <2>1
  <2>3. otpErr' = "busy" /\ otpSt' = "issue"
    BY <1>2, <1>3
  <2> QED
    BY <2>1, <2>2, <2>3 DEF OtpOurs
<1>8. OtpReport'
  BY <1>2, <1>3 DEF OtpReport
<1> QED
  BY <1>4, <1>5, <1>6, <1>7, <1>8 DEF OtpInv

(* A call that gives up leaves a command that may still program its words.    *)
LEMMA OtpGiveUp ==
  ASSUME OtpInv, otpSt' = "idle", otpErr' \in {"length", "timeout", "failed"},
         UNCHANGED <<otpCall, otpI, out, ecc, ready, otpCalls, Otp!chip, otpIdle, fuse0>>
  PROVE  OtpInv'
<1> USE DEF Otp!chip
<1>1. OtpTypes' /\ OtpCall'
  BY DEF OtpInv, OtpTypes, OtpCall
<1>2. OtpProgress' /\ OtpCommand'
  BY DEF OtpInv, OtpProgress, OtpCommand, Reading, Words, Otp!WordsOf, BytesBy, Strap
<1>3. OtpOurs' /\ OtpReport'
  BY DEF OtpInv, OtpOurs, OtpReport, Target
<1> QED
  BY <1>1, <1>2, <1>3 DEF OtpInv

(* The registers are written and the command is given; or, if the controller  *)
(* is busy with a command given up on, perhaps not.                           *)
LEMMA OtpIssue == ASSUME OtpInv, Otp!Issue PROVE OtpInv'
<1>1. CASE ~Otp!Legal(otpCall)
  <2>1. otpSt' = "idle" /\ otpErr' = "length"
        /\ UNCHANGED <<otpCall, otpI, out, ecc, ready, otpCalls, Otp!chip, otpIdle, fuse0>>
    BY <1>1 DEF Otp!Issue, Otp!Return, Otp!chip
  <2> QED
    BY <2>1, OtpGiveUp
<1>2. CASE Otp!Legal(otpCall) /\ otpCall.op # "ProgramWords" /\ otpI = Words
  <2>1. /\ otpSt = "issue" /\ otpSt' = "idle" /\ otpErr' = "nil"
        /\ UNCHANGED <<otpCall, otpI, out, ecc, ready, otpCalls, Otp!chip, otpIdle, fuse0>>
    BY <1>2 DEF Otp!Issue, Otp!Return, Otp!chip, Words
  <2>2. Reading
    BY <1>2, <2>1 DEF OtpInv, OtpCall, OtpProgress, Reading, Words, Otp!WordsOf
  <2>3. otpBusy \in BOOLEAN /\ (otpIdle => ~otpBusy) /\ otpBusy' = otpBusy
    BY <2>1 DEF OtpInv, OtpTypes, OtpOurs, Otp!chip
  <2>4. OtpTypes' /\ OtpCall'
    BY <2>1 DEF OtpInv, OtpTypes, OtpCall, Otp!chip
  <2>5. OtpProgress' /\ OtpCommand'
    BY <2>1 DEF OtpInv, OtpProgress, OtpCommand, Reading, Words, Otp!WordsOf, BytesBy, Strap,
                Otp!chip
  <2>6. OtpOurs'
    BY <2>1, <2>2, <2>3 DEF OtpInv, OtpOurs, Target, Reading, Otp!chip
  <2>7. OtpReport'
    BY <1>2, <2>1, <2>2 DEF OtpInv, OtpReport, Target, Reading, Words, Otp!WordsOf, Strap,
                            Otp!chip
  <2> QED
    BY <2>4, <2>5, <2>6, <2>7 DEF OtpInv
<1>3. CASE Otp!Legal(otpCall) /\ ~(otpCall.op # "ProgramWords" /\ otpI = Words)
  <2>1. /\ otpSt = "issue" /\ otpSt' = "wait"
        /\ UNCHANGED <<otpCall, otpI, out, otpErr, ecc, ready, otpCalls, pass, otpData, fuse,
                       otpIdle, fuse0>>
        /\ \/ /\ otpBusy'
              /\ cmd' = Otp!Command(IF otpCall.op = "ProgramWords" THEN "prog" ELSE "read",
                                    otpCall.off + otpI, otpCall.data, otpCall.op # "Init" /\ ecc)
           \/ otpBusy /\ otpBusy' = otpBusy /\ cmd' = cmd
        /\ otpBusy' \in BOOLEAN
    BY <1>3 DEF Otp!Issue, Otp!Return, Words, OtpInv, OtpTypes
  <2>2. Reading => otpI < Words /\ Words <= Size /\ otpCall.off = 0
    BY <1>3, <2>1, Bounds
       DEF OtpInv, OtpTypes, OtpCall, OtpProgress, Reading, Words, Otp!WordsOf
  <2>3. otpCall.off + otpI \in 0 .. Size
    <3>1. otpI \in Nat /\ otpCall.off \in 0 .. Size /\ (~Reading => otpI = 0)
      BY DEF OtpInv, OtpTypes, OtpCall, OtpProgress
    <3>2. Words \in Int
      BY DEF OtpInv, OtpCall, Words, Otp!WordsOf
    <3> QED
      BY <2>2, <3>1, <3>2, Bounds
  <2>4. OtpTypes' /\ OtpCall'
    BY <2>1 DEF OtpInv, OtpTypes, OtpCall
  <2>5. OtpProgress'
    BY <2>1, <2>2 DEF OtpInv, OtpProgress, Reading, Words, Otp!WordsOf, BytesBy
  <2>6. otpI = 0 \/ Reading
    BY DEF OtpInv, OtpProgress
  <2>7. OtpCommand'
    <3>1. CASE cmd' = cmd
      BY <2>1, <3>1 DEF OtpInv, OtpCommand, Strap
    <3>2. CASE cmd' = Otp!Command(IF otpCall.op = "ProgramWords" THEN "prog" ELSE "read",
                                  otpCall.off + otpI, otpCall.data, otpCall.op # "Init" /\ ecc)
      <4>1. ecc \in BOOLEAN
        BY DEF OtpInv, OtpTypes
      <4>2. cmd'.op \in {"read", "prog"} /\ cmd'.addr \in 0 .. Size /\ cmd'.ecc \in BOOLEAN
        BY <2>3, <3>2, <4>1 DEF Otp!Command
      <4>3. cmd'.op = "prog" => /\ cmd'.data \in Seq(Otp!Word)
                                /\ cmd'.addr + Len(cmd'.data) <= Size
        <5>1. cmd'.op = "prog" => otpCall.op = "ProgramWords"
          BY <3>2 DEF Otp!Command
        <5>2. cmd'.data = otpCall.data /\ cmd'.addr = otpCall.off + otpI
          BY <3>2 DEF Otp!Command
        <5>3. otpCall.op = "ProgramWords" => otpI = 0 /\ otpCall.off + otpI = otpCall.off
          BY <2>6 DEF OtpInv, OtpCall, Reading
        <5> QED
          BY <5>1, <5>2, <5>3 DEF OtpInv, OtpCall
      <4> QED
        BY <2>1, <4>2, <4>3 DEF OtpInv, OtpCommand, Strap
    <3> QED
      BY <2>1, <3>1, <3>2
  <2>8. OtpOurs'
    <3> SUFFICES ASSUME otpIdle PROVE OtpOurs'
      BY <2>1 DEF OtpOurs
    <3>1. ~otpBusy /\ otpErr = "busy"
      BY <2>1 DEF OtpInv, OtpOurs, OtpCall
    <3>2. /\ otpBusy'
          /\ cmd' = Otp!Command(IF otpCall.op = "ProgramWords" THEN "prog" ELSE "read",
                                otpCall.off + otpI, otpCall.data, otpCall.op # "Init" /\ ecc)
      BY <2>1, <3>1
    <3>3. ecc \in BOOLEAN
      BY DEF OtpInv, OtpTypes
    <3>4. /\ cmd'.op = IF otpCall.op = "ProgramWords" THEN "prog" ELSE "read"
          /\ cmd'.addr = otpCall.off + otpI /\ cmd'.data = otpCall.data
          /\ otpCall.op # "Init" => (cmd'.ecc <=> ecc)
      BY <3>2, <3>3 DEF Otp!Command
    <3>5. otpCall.op = "ProgramWords" => cmd'.addr = otpCall.off
      BY <2>6, <3>4 DEF OtpInv, OtpCall, Reading
    <3> QED
      BY <2>1, <3>1, <3>2, <3>4, <3>5 DEF OtpInv, OtpOurs, Target
  <2>9. OtpReport'
    BY <2>1 DEF OtpInv, OtpCall, OtpReport, Target, Reading, Words, Otp!WordsOf, Strap
  <2> QED
    BY <2>4, <2>5, <2>7, <2>8, <2>9 DEF OtpInv
<1> QED
  BY <1>1, <1>2, <1>3

(* A word's two bytes, their indices among a result's bytes, and the words    *)
(* that hold n bytes.                                                         *)
LEMMA TwoBytes ==
  /\ \A k \in Nat : /\ (2 * k) \div 2 = k /\ (2 * k) % 2 = 0
                    /\ (2 * k + 1) \div 2 = k /\ (2 * k + 1) % 2 = 1
  /\ \A n \in Nat : /\ (n + 1) \div 2 \in Nat /\ n <= 2 * ((n + 1) \div 2)
                    /\ \A k \in Nat : k < (n + 1) \div 2 => 2 * k < n
  /\ \A w \in Otp!Word : /\ w \in Seq(Otp!Byte) /\ Len(w) = 2
                         /\ <<w[1]>> \in Seq(Otp!Byte) /\ Len(<<w[1]>>) = 1
                         /\ <<w[1]>>[1] = w[1]
<1>1. ASSUME NEW w \in Otp!Word PROVE w = <<w[1], w[2]>> /\ {w[1], w[2]} \subseteq Otp!Byte
  BY DEF Otp!Word
<1>2. ASSUME NEW w \in Otp!Word PROVE <<w[1], w[2]>> \in Seq(Otp!Byte) /\ Len(<<w[1], w[2]>>) = 2
  BY <1>1
<1>3. ASSUME NEW w \in Otp!Word PROVE w \in Seq(Otp!Byte) /\ Len(w) = 2
  BY <1>1, <1>2
<1>4. ASSUME NEW w \in Otp!Word PROVE <<w[1]>> \in Seq(Otp!Byte) /\ Len(<<w[1]>>) = 1
  BY <1>1
<1>5. \A k \in Nat : /\ (2 * k) \div 2 = k /\ (2 * k) % 2 = 0
                     /\ (2 * k + 1) \div 2 = k /\ (2 * k + 1) % 2 = 1
  OBVIOUS
<1>6. \A n \in Nat : /\ (n + 1) \div 2 \in Nat /\ n <= 2 * ((n + 1) \div 2)
                     /\ \A k \in Nat : k < (n + 1) \div 2 => 2 * k < n
  OBVIOUS
<1> QED
  BY <1>3, <1>4, <1>5, <1>6

(* ReadWords takes a word.                                                    *)
LEMMA OtpTakeWord ==
  ASSUME OtpInv, otpCall.op = "ReadWords", otpSt = "wait", ~otpBusy, pass,
         Otp!Take, UNCHANGED <<otpCall, otpCalls, Otp!chip, otpIdle, fuse0>>
  PROVE  OtpInv'
<1>1. /\ out' = Append(out, otpData) /\ otpI' = otpI + 1 /\ otpSt' = "issue"
      /\ UNCHANGED <<otpErr, ecc, ready, otpCall, otpCalls, otpBusy, cmd, pass, otpData, fuse,
                     otpIdle, fuse0>>
  BY DEF Otp!Take, Otp!chip
<1>2. otpErr = "busy" /\ Reading
  BY DEF OtpInv, OtpCall, Reading
<1>3. /\ out \in Seq(Otp!Word) /\ Len(out) = otpI /\ otpCall.off = 0 /\ otpI < Words /\ Words \in Int
      /\ otpI \in Nat /\ otpData \in Otp!Word
  BY DEF OtpInv, OtpTypes, OtpCall, OtpProgress, Reading, Words, Otp!WordsOf
<1>4. /\ out' \in Seq(Otp!Word) /\ Len(out') = otpI + 1
      /\ \A k \in 1 .. otpI : out'[k] = out[k]
      /\ out'[otpI + 1] = otpData
  BY <1>1, <1>3, AppendProperties
<1>5. OtpTypes' /\ OtpCall'
  BY <1>1, <1>3 DEF OtpInv, OtpTypes, OtpCall
<1>6. OtpCommand'
  BY <1>1 DEF OtpInv, OtpCommand, Strap
<1>7. OtpProgress'
  <2>1. Words' = Words /\ Reading'
    BY <1>1, <1>2 DEF Words, Otp!WordsOf, Reading
  <2>2. otpI + 1 <= Words
    BY <1>3
  <2>3. otpCall.n <= Size
    BY <1>2 DEF OtpInv, OtpProgress
  <2> QED
    BY <1>1, <1>3, <1>4, <2>1, <2>2, <2>3 DEF OtpProgress
<1>8. OtpOurs'
  BY <1>1, <1>2 DEF OtpInv, OtpTypes, OtpOurs, Target
<1>9. OtpReport'
  <2> SUFFICES ASSUME otpIdle PROVE OtpReport'
    BY <1>1 DEF OtpReport
  <2>1. otpData = fuse[otpI]
    BY <1>3 DEF OtpInv, OtpOurs
  <2>2. \A k \in 1 .. otpI : out[k] = fuse[k - 1]
    BY <1>3 DEF OtpInv, OtpReport
  <2>3. \A k \in 1 .. otpI + 1 : out'[k] = fuse[k - 1]
    BY <1>3, <1>4, <2>1, <2>2
  <2> QED
    BY <1>1, <1>2, <1>4, <2>3 DEF OtpReport
<1> QED
  BY <1>5, <1>6, <1>7, <1>8, <1>9 DEF OtpInv

(* ReadBytes takes a word's two bytes, or the first of them.                  *)
LEMMA OtpTakeBytes ==
  ASSUME OtpInv, otpCall.op = "ReadBytes", otpSt = "wait", ~otpBusy, pass,
         Otp!Take, UNCHANGED <<otpCall, otpCalls, Otp!chip, otpIdle, fuse0>>
  PROVE  OtpInv'
<1> DEFINE new == IF 2 * otpI + 1 < otpCall.n THEN otpData ELSE <<otpData[1]>>
<1>1. /\ out' = out \o new /\ otpI' = otpI + 1 /\ otpSt' = "issue"
      /\ UNCHANGED <<otpErr, ecc, ready, otpCall, otpCalls, otpBusy, cmd, pass, otpData, fuse,
                     otpIdle, fuse0>>
  BY DEF Otp!Take, Otp!chip
<1>2. otpErr = "busy" /\ Reading
  BY DEF OtpInv, OtpCall, Reading
<1>3. /\ out \in Seq(Otp!Byte) /\ Len(out) = BytesBy(otpI) /\ otpCall.off = 0 /\ otpI < Words
      /\ otpI \in Nat /\ otpData \in Otp!Word /\ otpCall.n \in Nat /\ otpCall.n <= Size
  BY <1>2 DEF OtpInv, OtpTypes, OtpCall, OtpProgress
<1>4. Words = (otpCall.n + 1) \div 2
  BY DEF Words, Otp!WordsOf
<1>5. Words \in Int /\ 2 * otpI < otpCall.n
  BY <1>3, <1>4, TwoBytes
<1>6. BytesBy(otpI) = 2 * otpI /\ Len(out) = 2 * otpI
  BY <1>3, <1>5 DEF BytesBy
<1>7. /\ new \in Seq(Otp!Byte) /\ Len(new) \in Nat
      /\ Len(new) = IF 2 * otpI + 1 < otpCall.n THEN 2 ELSE 1
      /\ new[1] = otpData[1] /\ (2 * otpI + 1 < otpCall.n => new[2] = otpData[2])
  <2>1. /\ otpData \in Seq(Otp!Byte) /\ Len(otpData) = 2
        /\ <<otpData[1]>> \in Seq(Otp!Byte) /\ Len(<<otpData[1]>>) = 1
        /\ <<otpData[1]>>[1] = otpData[1]
    BY <1>3, TwoBytes
  <2>2. CASE 2 * otpI + 1 < otpCall.n
    BY <2>1, <2>2
  <2>3. CASE ~(2 * otpI + 1 < otpCall.n)
    BY <2>1, <2>3
  <2> QED
    BY <2>2, <2>3
<1> HIDE DEF new
<1>8. /\ out' \in Seq(Otp!Byte) /\ Len(out') = 2 * otpI + Len(new)
      /\ \A k \in 1 .. 2 * otpI + Len(new) :
           out'[k] = IF k <= 2 * otpI THEN out[k] ELSE new[k - 2 * otpI]
  <2>1. /\ out \o new \in Seq(Otp!Byte) /\ Len(out \o new) = Len(out) + Len(new)
        /\ \A k \in 1 .. Len(out) + Len(new) :
             (out \o new)[k] = IF k <= Len(out) THEN out[k] ELSE new[k - Len(out)]
    BY <1>3, <1>7, ConcatProperties
  <2> QED
    BY <1>1, <1>6, <2>1
<1>9. otpI \in Nat /\ otpCall.n \in Nat
  BY <1>3
<1>10. \/ 2 * otpI + 1 < otpCall.n /\ Len(new) = 2 /\ new[2] = otpData[2]
       \/ 2 * otpI + 1 = otpCall.n /\ Len(new) = 1
  BY <1>5, <1>7, <1>9
<1>11. OtpTypes' /\ OtpCall'
  BY <1>1, <1>3 DEF OtpInv, OtpTypes, OtpCall
<1>12. OtpCommand'
  BY <1>1 DEF OtpInv, OtpCommand, Strap
<1>13. OtpProgress'
  <2>1. Words' = Words /\ Reading'
    BY <1>1, <1>2 DEF Words, Otp!WordsOf, Reading
  <2>2. otpI + 1 <= Words
    BY <1>3, <1>5
  <2>3. Len(out') = BytesBy(otpI)'
    <3>1. BytesBy(otpI)' = IF 2 * (otpI + 1) <= otpCall.n THEN 2 * (otpI + 1) ELSE otpCall.n
      BY <1>1 DEF BytesBy
    <3> QED
      <4>1. Len(out') = 2 * otpI + Len(new) /\ Len(new) \in Nat
        BY <1>7, <1>8
      <4>2. CASE 2 * otpI + 1 < otpCall.n /\ Len(new) = 2
        BY <1>9, <3>1, <4>1, <4>2
      <4>3. CASE 2 * otpI + 1 = otpCall.n /\ Len(new) = 1
        BY <1>9, <3>1, <4>1, <4>3
      <4> QED
        BY <1>10, <4>2, <4>3
  <2> QED
    BY <1>1, <1>3, <1>8, <2>1, <2>2, <2>3 DEF OtpProgress
<1>14. OtpOurs'
  BY <1>1, <1>2 DEF OtpInv, OtpTypes, OtpOurs, Target
<1>15. OtpReport'
  <2>0. otpIdle' = otpIdle
    BY <1>1
  <2> SUFFICES ASSUME otpIdle PROVE OtpReport'
    BY <2>0 DEF OtpReport
  <2>1. otpData = fuse[otpI]
    BY <1>3 DEF OtpInv, OtpOurs
  <2>2. \A k \in 1 .. 2 * otpI : out[k] = fuse[(k - 1) \div 2][1 + ((k - 1) % 2)]
    BY <1>3, <1>6 DEF OtpInv, OtpReport
  <2>3. ASSUME NEW k \in 1 .. Len(out')
        PROVE  out'[k] = fuse[(k - 1) \div 2][1 + ((k - 1) % 2)]
    <3>1. CASE k <= 2 * otpI
      BY <1>8, <1>9, <1>10, <2>2, <3>1
    <3>2. CASE k = 2 * otpI + 1
      <4>1. k - 1 = 2 * otpI
        BY <1>3, <3>2
      <4>2. (k - 1) \div 2 = otpI /\ (k - 1) % 2 = 0
        BY <1>3, <4>1, TwoBytes
      <4> QED
        BY <1>3, <1>7, <1>8, <2>1, <3>2, <4>2
    <3>3. CASE k = 2 * otpI + 2
      <4>1. k - 1 = 2 * otpI + 1 /\ 2 * otpI + 1 < otpCall.n
        BY <1>8, <1>9, <1>10, <3>3
      <4>2. (k - 1) \div 2 = otpI /\ (k - 1) % 2 = 1
        BY <1>3, <4>1, TwoBytes
      <4> QED
        BY <1>8, <1>9, <1>10, <2>1, <3>3, <4>1, <4>2
    <3> QED
      <4>1. \A l, m, c \in Int : l \in 1 .. c /\ c \in {m + 1, m + 2}
                                 => l <= m \/ l = m + 1 \/ l = m + 2
        OBVIOUS
      <4>2. Len(out') \in {2 * otpI + 1, 2 * otpI + 2} /\ 2 * otpI \in Int
        BY <1>7, <1>8, <1>9
      <4>3. k <= 2 * otpI \/ k = 2 * otpI + 1 \/ k = 2 * otpI + 2
        BY <4>1, <4>2
      <4> QED
        BY <3>1, <3>2, <3>3, <4>3
  <2> QED
    BY <1>1, <1>2, <2>3 DEF OtpReport
<1> QED
  BY <1>11, <1>12, <1>13, <1>14, <1>15 DEF OtpInv

(* waitComplete gives up, fails, or takes what its command brought.           *)
LEMMA OtpWait == ASSUME OtpInv, Otp!waitComplete PROVE OtpInv'
<1>1. otpSt = "wait" /\ UNCHANGED <<otpCall, otpCalls, Otp!chip, otpIdle, fuse0>>
  BY DEF Otp!waitComplete
<1>2. CASE otpBusy \/ ~pass
  <2>1. /\ otpSt' = "idle" /\ otpErr' \in {"timeout", "failed"}
        /\ UNCHANGED <<otpI, out, ecc, ready>>
    BY <1>2 DEF Otp!waitComplete, Otp!Return
  <2> QED
    BY <1>1, <2>1, OtpGiveUp
<1>3. CASE ~otpBusy /\ pass
  <2>1. Otp!Take
    BY <1>3 DEF Otp!waitComplete
  <2>2. otpErr = "busy" /\ otpCall.op \in {"Init", "ReadWords", "ReadBytes", "ProgramWords"}
    BY <1>1 DEF OtpInv, OtpCall
  <2>3. CASE otpCall.op = "ReadWords"
    BY <1>1, <1>3, <2>1, <2>3, OtpTakeWord
  <2>4. CASE otpCall.op = "ReadBytes"
    BY <1>1, <1>3, <2>1, <2>4, OtpTakeBytes
  <2>5. CASE otpCall.op \in {"Init", "ProgramWords"}
    <3>1. /\ otpSt' = "idle" /\ otpErr' = "nil"
          /\ UNCHANGED <<otpI, out, otpCall, otpCalls, otpBusy, cmd, pass, otpData, fuse, otpIdle,
                         fuse0>>
          /\ otpCall.op = "Init" => (ecc' <=> otpData[1] = 1) /\ (ready' <=> otpIdle)
          /\ otpCall.op = "ProgramWords" => ecc' = ecc /\ ready' = ready
          /\ ecc' \in BOOLEAN /\ ready' \in BOOLEAN
      BY <1>1, <2>1, <2>5 DEF Otp!Take, Otp!Return, Otp!chip, OtpInv, OtpTypes
    <3>2. ~Reading /\ otpI = 0
      BY <2>5 DEF Reading, OtpInv, OtpProgress
    <3>3. otpCall.op = "Init" /\ otpIdle => (ecc' <=> Strap)
      <4>1. otpCall.op = "Init" /\ otpIdle => otpData = fuse[Size]
        BY <1>1, <1>3, <3>2, Bounds DEF OtpInv, OtpOurs, OtpCall
      <4> QED
        BY <3>1, <4>1 DEF Strap
    <3>4. OtpTypes' /\ OtpCall'
      BY <3>1 DEF OtpInv, OtpTypes, OtpCall
    <3>5. OtpProgress'
      BY <3>1, <3>2 DEF OtpInv, OtpProgress, Reading
    <3>6. Strap' = Strap
      BY <3>1 DEF Strap
    <3>7. OtpCommand'
      <4>1. ready' => (ecc' <=> Strap)
        <5>1. CASE otpCall.op = "Init"
          BY <3>1, <3>3, <5>1
        <5>2. CASE otpCall.op = "ProgramWords"
          <6>1. ready => (ecc <=> Strap)
            BY DEF OtpInv, OtpCommand
          <6>2. (ecc' <=> ecc) /\ (ready' <=> ready)
            BY <3>1, <5>2
          <6> QED
            BY <6>1, <6>2
        <5> QED
          BY <2>5, <5>1, <5>2
      <4> QED
        BY <3>1, <3>6, <4>1 DEF OtpInv, OtpCommand
    <3>8. OtpOurs'
      BY <1>1, <1>3, <2>5, <3>1 DEF OtpInv, OtpOurs, OtpTypes, Target
    <3>9. OtpReport'
      <4>1. otpCall.op = "ProgramWords" /\ otpIdle => fuse = Target
        BY <1>1, <1>3 DEF OtpInv, OtpOurs
      <4> QED
        <5>1. Target' = Target /\ fuse' = fuse /\ otpIdle' = otpIdle
          BY <3>1 DEF Target
        <5>2. ~Reading'
          BY <3>1, <3>2 DEF Reading
        <5>3. otpCall.op = "Init" /\ otpIdle => (ecc' <=> Strap')
          BY <3>3, <3>6
        <5> QED
          BY <2>5, <3>1, <4>1, <5>1, <5>2, <5>3 DEF OtpReport
    <3> QED
      BY <3>4, <3>5, <3>7, <3>8, <3>9 DEF OtpInv
  <2> QED
    BY <2>2, <2>3, <2>4, <2>5
<1> QED
  BY <1>2, <1>3

(* The controller ends its command, its fuses set or only some of them.       *)
LEMMA OtpEnd == ASSUME OtpInv, Otp!Finish PROVE OtpInv'
<1>1. /\ otpBusy /\ ~otpBusy' /\ otpBusy' \in BOOLEAN
      /\ UNCHANGED <<otpSt, otpCall, otpI, out, otpErr, ecc, ready, otpCalls, cmd, otpIdle, fuse0>>
  BY DEF Otp!Finish, Otp!drv
<1>2. /\ fuse' \in Fuses /\ fuse'[Size] = fuse[Size]
      /\ cmd.op = "read" => fuse' = fuse
      /\ cmd.op = "prog" => LET g == Otp!Programmed(fuse, cmd.addr, cmd.data) IN
                            /\ \A a \in 0 .. Size : fuse'[a] \in {fuse[a], g[a]}
                            /\ pass' => fuse' = g
  <2>1. CASE fuse' = fuse /\ (pass' => cmd.op = "read")
    BY <2>1 DEF OtpInv, OtpTypes, OtpCommand
  <2>2. CASE ~(fuse' = fuse /\ (pass' => cmd.op = "read"))
    <3>1. cmd.op = "prog" /\ \E n \in 0 .. Len(cmd.data) :
              /\ fuse' = Otp!Programmed(fuse, cmd.addr, SubSeq(cmd.data, 1, n))
              /\ pass' = (n = Len(cmd.data))
      BY <2>2 DEF Otp!Finish
    <3>2. PICK n \in 0 .. Len(cmd.data) :
              /\ fuse' = Otp!Programmed(fuse, cmd.addr, SubSeq(cmd.data, 1, n))
              /\ pass' = (n = Len(cmd.data))
      BY <3>1
    <3>3. /\ fuse \in Fuses /\ cmd.addr \in 0 .. Size /\ cmd.data \in Seq(Otp!Word)
          /\ cmd.addr + Len(cmd.data) <= Size /\ Size \in Nat
      BY <3>1, Bounds DEF OtpInv, OtpTypes, OtpCommand
    <3> QED
      BY <3>1, <3>2, <3>3, ProgramPart
  <2> QED
    BY <2>1, <2>2
<1>3. otpData' \in Otp!Word /\ (cmd.op = "read" /\ pass' => otpData' = fuse[cmd.addr])
  BY DEF Otp!Finish, OtpInv, OtpTypes, OtpCommand, Fuses
<1>4. Strap' = Strap
  BY <1>2 DEF Strap
<1>5. OtpTypes' /\ OtpCall'
  BY <1>1, <1>2, <1>3 DEF OtpInv, OtpTypes, OtpCall
<1>6. OtpProgress' /\ OtpCommand'
  BY <1>1, <1>4 DEF OtpInv, OtpProgress, OtpCommand, Reading, Words, Otp!WordsOf, BytesBy
<1>7. Target' = Target
  BY <1>1 DEF Target
<1>8. OtpOurs' /\ OtpReport'
  <2>1. CASE ~otpIdle
    BY <1>1, <2>1 DEF OtpOurs, OtpReport
  <2>2. CASE otpIdle
    <3>1. /\ fuse = fuse0 /\ otpSt # "issue" /\ otpErr # "nil"
          /\ cmd.op = IF otpCall.op = "ProgramWords" THEN "prog" ELSE "read"
          /\ otpCall.op = "ProgramWords" => cmd.addr = otpCall.off /\ cmd.data = otpCall.data
      BY <1>1, <2>2 DEF OtpInv, OtpOurs
    <3>2. otpCall.op = "ProgramWords" => /\ \A a \in 0 .. Size : fuse'[a] \in {fuse0[a], Target[a]}
                                         /\ pass' => fuse' = Target
      BY <1>2, <3>1 DEF Target
    <3>3. otpCall.op # "ProgramWords" => fuse' = fuse
      BY <1>2, <3>1
    <3>4. OtpOurs'
      <4>1. otpSt' = "wait" => cmd'.addr = otpCall'.off + otpI'
        BY <1>1, <2>2 DEF OtpInv, OtpOurs
      <4>2. otpSt' = "wait" => /\ cmd'.op = cmd.op /\ cmd'.addr = cmd.addr /\ cmd'.data = cmd.data
                               /\ otpCall.op # "Init" => (cmd'.ecc <=> ecc')
        BY <1>1, <2>2 DEF OtpInv, OtpOurs
      <4>3. \A a \in 0 .. Size : fuse'[a] \in {fuse0'[a], Target'[a]}
        BY <1>1, <1>7, <3>1, <3>2, <3>3
      <4>4. otpSt' = "wait" /\ pass' =>
              IF otpCall'.op = "ProgramWords" THEN fuse' = Target' ELSE otpData' = fuse'[cmd'.addr]
        BY <1>1, <1>3, <1>7, <3>1, <3>2, <3>3
      <4>5. otpCall'.op # "ProgramWords" => fuse' = fuse0'
        BY <1>1, <3>1, <3>3
      <4> QED
        BY <1>1, <3>1, <4>1, <4>2, <4>3, <4>4, <4>5 DEF OtpOurs
    <3>5. OtpReport'
      BY <1>1, <3>1, <3>3 DEF OtpInv, OtpReport
    <3> QED
      BY <3>4, <3>5
  <2> QED
    BY <2>1, <2>2
<1> QED
  BY <1>5, <1>6, <1>8 DEF OtpInv

(* The inductive invariant of the OTP controller.                             *)
THEOREM OtpInvHolds == Otp!Spec => []OtpInv
<1>1. OtpInv /\ UNCHANGED Otp!vars => OtpInv'
  <2> SUFFICES ASSUME OtpInv, UNCHANGED Otp!vars PROVE OtpInv'
    OBVIOUS
  <2> USE DEF Otp!vars, Otp!drv, Otp!chip
  <2>1. OtpTypes' /\ OtpCall'
    BY DEF OtpInv, OtpTypes, OtpCall
  <2>2. OtpProgress' /\ OtpCommand'
    BY DEF OtpInv, OtpProgress, OtpCommand, Reading, Words, Otp!WordsOf, BytesBy, Strap
  <2>3. OtpOurs' /\ OtpReport'
    BY DEF OtpInv, OtpOurs, OtpReport, Target, Reading, Words, Otp!WordsOf, Strap
  <2> QED
    BY <2>1, <2>2, <2>3 DEF OtpInv
<1>2. OtpInv /\ [Otp!Next]_(Otp!vars) => OtpInv'
  BY <1>1, OtpBegin, OtpIssue, OtpWait, OtpEnd DEF Otp!Next
<1> QED
  BY OtpStart, <1>2, PTL DEF Otp!Spec

(* What the invariant says of the calls that return, and of what they set.    *)
LEMMA OtpInvReports == ASSUME OtpInv PROVE Otp!OtpReportsAreTrue
<1> SUFFICES ASSUME otpIdle PROVE Otp!OtpReportsAreTrue
  BY DEF Otp!OtpReportsAreTrue
<1>1. \A a \in 0 .. Size : fuse[a] \in {fuse0[a], Target[a]}
  BY DEF OtpInv, OtpOurs
<1>2. otpErr = "nil" /\ otpCall.op = "ProgramWords" => fuse = Target
  BY DEF OtpInv, OtpReport
<1>3. otpErr = "nil" /\ otpCall.op = "ReadWords" => out = [k \in 1 .. otpCall.n |-> fuse[k - 1]]
  BY DEF OtpInv, OtpCall, OtpProgress, OtpReport, Reading, Words, Otp!WordsOf
<1>4. otpErr = "nil" /\ otpCall.op = "ReadBytes" =>
        out = [k \in 1 .. otpCall.n |-> fuse[(k - 1) \div 2][1 + ((k - 1) % 2)]]
  <2> SUFFICES ASSUME otpErr = "nil", otpCall.op = "ReadBytes"
               PROVE out = [k \in 1 .. otpCall.n |-> fuse[(k - 1) \div 2][1 + ((k - 1) % 2)]]
    OBVIOUS
  <2>1. out \in Seq(Otp!Byte) /\ Len(out) = BytesBy(otpI) /\ otpI = Words /\ otpCall.n \in Nat
    BY DEF OtpInv, OtpCall, OtpProgress, OtpReport, Reading
  <2>2. Words = (otpCall.n + 1) \div 2
    BY DEF Words, Otp!WordsOf
  <2>3. Len(out) = otpCall.n
    BY <2>1, <2>2, TwoBytes DEF BytesBy
  <2>4. \A k \in 1 .. Len(out) : out[k] = fuse[(k - 1) \div 2][1 + ((k - 1) % 2)]
    BY DEF OtpInv, OtpReport
  <2>5. out \in [1 .. otpCall.n -> Otp!Byte]
    BY <2>1, <2>3, LenProperties
  <2> QED
    BY <2>3, <2>4, <2>5
<1>5. otpErr = "nil" /\ otpCall.op \notin {"ProgramWords", "ReadWords", "ReadBytes"} =>
        ecc = (fuse[Size][1] = 1) \/ otpCall.op = "none"
  BY DEF OtpInv, OtpTypes, OtpCall, OtpReport, Strap
<1>6. ready /\ otpBusy /\ otpCall.op # "Init" => cmd.ecc = (fuse[Size][1] = 1)
  BY DEF OtpInv, OtpTypes, OtpCommand, OtpOurs, Strap
<1> QED
  BY <1>1, <1>2, <1>3, <1>4, <1>5, <1>6 DEF Otp!OtpReportsAreTrue, Target

(* However many calls otp.go gives up on, and whatever command one of them    *)
(* leaves behind: a call that finds the controller idle returns nil only for  *)
(* fuses read or set as asked, sets no others, and runs its commands in the   *)
(* ECC mode that a sound Init has read.                                       *)
THEOREM OtpReports == Otp!Spec => []OtpReportsAreTrue
<1>1. OtpInv => OtpReportsAreTrue
  BY OtpInvReports DEF OtpReportsAreTrue
<1> QED
  BY <1>1, OtpInvHolds, PTL

-----------------------------------------------------------------------------
(* DisplayPort AUX.                                                           *)

(* The chunks of a block read before transaction s, and the sink's pointer    *)
(* then.                                                                      *)
ReadBy(s) == IF s <= 4 THEN 0 ELSE s - 4
PtrBy(s) == (8 * blk + ReadBy(s)) % 16
FirstBlock == [k \in 1 .. 8 |-> k - 1]

AuxTypes ==
  /\ auxPc \in {"idle", "fire", "wait"} /\ step \in 1 .. 12 /\ blk \in {0, 1}
  /\ auxBusy \in BOOLEAN /\ clean \in BOOLEAN /\ ext \in BOOLEAN
  /\ auxPc # "idle" => auxErr = "busy"

(* What a call that found the engine quiet has read.                          *)
AuxRead ==
  clean /\ auxPc # "idle" =>
    /\ buf \in Seq(Int) /\ Len(buf) = ReadBy(step)
    /\ \A k \in 1 .. Len(buf) : buf[k] = 8 * blk + k - 1
    /\ IF blk = 0 THEN auxBase = <<>> ELSE ext /\ auxBase = FirstBlock

(* The transaction in the engine is its own, and the sink's pointer is where  *)
(* the block has been read to, before it and after.                           *)
AuxOurs ==
  clean =>
    /\ auxPc = "fire" => ~auxBusy /\ auxInt = {} /\ (step > 2 => ptr = PtrBy(step))
    /\ auxPc = "wait" =>
         /\ txn = <<Aux!Txn(step), 8 * blk>>
         /\ \/ auxBusy /\ auxInt = {} /\ (step > 2 => ptr = PtrBy(step))
            \/ ~auxBusy /\ auxInt = {"timeout"}
            \/ /\ ~auxBusy /\ auxInt = {"done"} /\ status = "defer"
               /\ step \in 4 .. 11 /\ ptr = PtrBy(step)
            \/ /\ ~auxBusy /\ auxInt = {"done"} /\ status # "defer"
               /\ step \in 2 .. 11 => ptr = PtrBy(step + 1)
               /\ step \in 4 .. 11 => auxData = 8 * blk + ReadBy(step)

AuxInv == AuxTypes /\ AuxRead /\ AuxOurs /\ Aux!EdidIsWhole

(* The transactions by name: the reads are the fourth to the eleventh.        *)
LEMMA TxnNames ==
  ASSUME NEW s \in 1 .. 12
  PROVE  /\ Aux!Txn(s) = "read" <=> s \in 4 .. 11
         /\ Aux!Txn(s) = "offset" <=> s = 2
  BY DEF Aux!Txn

(* A call that fails in the extension block returns the base block.           *)
LEMMA AuxFail ==
  ASSUME AuxInv, auxPc = "wait", Aux!Fail("timeout"), clean' = clean, ext' = ext,
         auxBusy' = auxBusy
  PROVE  AuxInv'
<1>1. /\ auxPc' = "idle" /\ UNCHANGED <<blk, step, buf, auxBase>>
      /\ auxErr' = IF blk = 0 THEN "timeout" ELSE "nil"
  BY DEF Aux!Fail
<1>2. AuxTypes'
  BY <1>1 DEF AuxInv, AuxTypes
<1>3. AuxRead' /\ AuxOurs'
  BY <1>1 DEF AuxRead, AuxOurs
<1>4. Aux!EdidIsWhole'
  BY <1>1 DEF AuxInv, AuxTypes, AuxRead, Aux!EdidIsWhole, FirstBlock
<1> QED
  BY <1>2, <1>3, <1>4 DEF AuxInv

(* A call begins.                                                             *)
LEMMA AuxBegin == ASSUME AuxInv, Aux!ReadEDID PROVE AuxInv'
<1>1. /\ auxPc = "idle" /\ blk' = 0 /\ step' = 1 /\ buf' = <<>> /\ auxBase' = <<>>
      /\ clean' = (~auxBusy /\ auxInt = {})
      /\ \/ auxPc' = "fire" /\ auxErr' = "busy"
         \/ auxPc' = "idle" /\ auxErr' = "nohpd"
      /\ UNCHANGED <<auxBusy, txn, auxInt, status, auxData, ext, ptr, hpd>>
  BY DEF Aux!ReadEDID, Aux!Block, Aux!engine, Aux!sink
<1>2. AuxTypes'
  BY <1>1 DEF AuxInv, AuxTypes
<1>3. AuxRead'
  BY <1>1 DEF AuxRead, ReadBy
<1>4. clean' => ~auxBusy' /\ auxInt' = {}
  BY <1>1
<1>5. AuxOurs'
  BY <1>1, <1>4 DEF AuxOurs
<1>6. Aux!EdidIsWhole'
  BY <1>1 DEF Aux!EdidIsWhole
<1> QED
  BY <1>2, <1>3, <1>5, <1>6 DEF AuxInv

(* auxFire.                                                                   *)
LEMMA AuxFire == ASSUME AuxInv, Aux!Fire PROVE AuxInv'
<1>1. /\ auxPc = "fire" /\ auxPc' = "wait"
      /\ \/ auxBusy' = TRUE /\ txn' = <<Aux!Txn(step), 8 * blk>>
         \/ auxBusy /\ UNCHANGED <<auxBusy, txn>>
      /\ UNCHANGED <<blk, step, buf, auxBase, auxErr, auxInt, status, auxData, ext, ptr, clean>>
  BY DEF Aux!Fire, Aux!sink
<1>2. AuxTypes'
  BY <1>1 DEF AuxInv, AuxTypes
<1>3. AuxRead'
  BY <1>1 DEF AuxInv, AuxRead
<1>4. Aux!Txn(step)' = Aux!Txn(step)
  BY <1>1 DEF Aux!Txn
<1>5. AuxOurs'
  BY <1>1, <1>4 DEF AuxInv, AuxOurs, PtrBy
<1>6. Aux!EdidIsWhole'
  BY <1>1 DEF AuxInv, Aux!EdidIsWhole
<1> QED
  BY <1>2, <1>3, <1>5, <1>6 DEF AuxInv

(* The engine ends a transaction.                                             *)
LEMMA AuxFinish == ASSUME ~DeferWrites, AuxInv, Aux!Finish PROVE AuxInv'
<1>1. /\ auxBusy /\ auxBusy' = FALSE
      /\ UNCHANGED <<auxPc, blk, step, buf, auxBase, auxErr, txn, ext, clean>>
  BY DEF Aux!Finish, Aux!drv
<1>2. AuxTypes' /\ AuxRead' /\ Aux!EdidIsWhole'
  BY <1>1 DEF AuxInv, AuxTypes, AuxRead, Aux!EdidIsWhole
<1>3. AuxOurs'
  <2> SUFFICES ASSUME clean, auxPc = "wait" PROVE AuxOurs'
    BY <1>1 DEF AuxInv, AuxOurs
  <2>1. /\ auxInt = {} /\ txn = <<Aux!Txn(step), 8 * blk>> /\ step \in 1 .. 12 /\ blk \in {0, 1}
        /\ step > 2 => ptr = PtrBy(step)
    BY <1>1 DEF AuxInv, AuxTypes, AuxOurs
  <2>2. /\ txn[1] = "read" <=> step \in 4 .. 11
        /\ txn[1] = "offset" <=> step = 2
        /\ txn[2] = 8 * blk
    BY <2>1, TxnNames
  <2>3. \A s : PtrBy(s)' = PtrBy(s)
    BY <1>1 DEF PtrBy
  <2>4. txn' = <<Aux!Txn(step), 8 * blk>> /\ Aux!Txn(step)' = Aux!Txn(step)
    BY <1>1, <2>1 DEF Aux!Txn
  <2>5. CASE auxInt' = {"timeout"}
    BY <1>1, <2>4, <2>5 DEF AuxOurs
  <2>6. CASE auxInt' = {"done"} /\ step \in 4 .. 11 /\ status' = "defer" /\ ptr' = ptr
    BY <1>1, <2>1, <2>3, <2>4, <2>6 DEF AuxOurs
  <2>7. CASE auxInt' = {"done"} /\ status' = "ack" /\ step = 2 /\ ptr' = 8 * blk
    <3>1. PtrBy(3) = 8 * blk
      BY <2>1 DEF PtrBy, ReadBy
    <3> QED
      BY <1>1, <2>3, <2>4, <2>7, <3>1 DEF AuxOurs
  <2>8. CASE /\ auxInt' = {"done"} /\ status' = "ack" /\ step \in 4 .. 11
             /\ auxData' = ptr /\ ptr' = (ptr + 1) % 16
    <3>1. ReadBy(step + 1) = ReadBy(step) + 1 /\ ReadBy(step) \in 0 .. 7
      BY <2>1, <2>8 DEF ReadBy
    <3>2. ptr = 8 * blk + ReadBy(step)
      BY <2>1, <2>8, <3>1 DEF PtrBy
    <3>3. ptr' = PtrBy(step + 1)
      BY <2>1, <2>8, <3>1, <3>2 DEF PtrBy
    <3>4. ReadBy(step)' = ReadBy(step)
      BY <1>1 DEF ReadBy
    <3> QED
      BY <1>1, <2>3, <2>4, <2>8, <3>2, <3>3, <3>4 DEF AuxOurs
  <2>9. CASE /\ auxInt' = {"done"} /\ status' = "ack" /\ step \notin 4 .. 11 /\ step # 2
             /\ ptr' = ptr
    <3>1. step = 3 => PtrBy(step + 1) = PtrBy(step)
      BY DEF PtrBy, ReadBy
    <3> QED
      BY <1>1, <2>1, <2>3, <2>4, <2>9, <3>1 DEF AuxOurs
  <2> QED
    BY <2>1, <2>2, <2>5, <2>6, <2>7, <2>8, <2>9 DEF Aux!Finish
<1> QED
  BY <1>2, <1>3 DEF AuxInv

(* The base block as a sequence.                                              *)
LEMMA FirstIsSeq ==
  FirstBlock \in Seq(Int) /\ Len(FirstBlock) = 8 /\ \A k \in 1 .. 8 : FirstBlock[k] = k - 1
<1>1. FirstBlock \in [1 .. 8 -> Int] /\ \A k \in 1 .. 8 : FirstBlock[k] = k - 1
  BY DEF FirstBlock
<1>2. FirstBlock \in Seq(Int)
  BY <1>1, SeqDef
<1>3. Len(FirstBlock) \in Nat /\ DOMAIN FirstBlock = 1 .. Len(FirstBlock)
  BY <1>2, LenProperties
<1>4. DOMAIN FirstBlock = 1 .. 8
  BY DEF FirstBlock
<1> QED
  BY <1>1, <1>2, <1>3, <1>4

(* A base block and its extension make the sixteen chunks.                    *)
LEMMA TwoBlocks ==
  ASSUME NEW s \in Seq(Int), Len(s) = 8, \A k \in 1 .. 8 : s[k] = k - 1,
         NEW t \in Seq(Int), Len(t) = 8, \A k \in 1 .. 8 : t[k] = k + 7
  PROVE  s \o t = [k \in 1 .. 16 |-> k - 1]
<1> DEFINE c == s \o t
<1>1. /\ c \in Seq(Int) /\ Len(c) = Len(s) + Len(t)
      /\ \A k \in 1 .. Len(s) + Len(t) : c[k] = IF k <= Len(s) THEN s[k] ELSE t[k - Len(s)]
  BY ConcatProperties
<1> HIDE DEF c
<1>2. Len(s) + Len(t) = 16
  OBVIOUS
<1>3. c \in [1 .. 16 -> Int]
  BY <1>1, <1>2, LenProperties
<1>4. ASSUME NEW k \in 1 .. 16 PROVE c[k] = k - 1
  <2>1. CASE k <= 8
    BY <1>1, <1>2, <2>1
  <2>2. CASE k > 8
    <3>1. c[k] = t[k - 8] /\ k - 8 \in 1 .. 8
      BY <1>1, <1>2, <2>2
    <3>2. t[k - 8] = (k - 8) + 7
      BY <3>1
    <3> QED
      BY <3>1, <3>2
  <2> QED
    BY <2>1, <2>2
<1> QED
  BY <1>3, <1>4 DEF c

(* The block is complete: the announced extension is next, or the call ends.  *)
LEMMA AuxComplete ==
  ASSUME AuxInv, auxPc = "wait", step = 12, clean => ~auxBusy, Aux!Complete, auxInt' = {},
         UNCHANGED <<auxBusy, ext, clean>>
  PROVE  AuxInv'
<1>1. clean => /\ buf \in Seq(Int) /\ Len(buf) = 8 /\ \A k \in 1 .. 8 : buf[k] = 8 * blk + k - 1
               /\ IF blk = 0 THEN auxBase = <<>> ELSE ext /\ auxBase = FirstBlock
  <2>1. ReadBy(step) = 8
    BY DEF ReadBy
  <2>2. auxPc # "idle"
    OBVIOUS
  <2> QED
    BY <2>1, <2>2 DEF AuxInv, AuxRead
<1>2. CASE blk = 0 /\ ext /\ buf[8] = 7
  <2>1. /\ auxBase' = buf /\ blk' = 1 /\ step' = 1 /\ buf' = <<>> /\ auxPc' = "fire"
        /\ auxErr' = auxErr
    BY <1>2 DEF Aux!Complete, Aux!Block
  <2>2. AuxTypes'
    BY <2>1 DEF AuxInv, AuxTypes
  <2>3. clean => auxBase' = FirstBlock
    <3>1. buf \in Seq(Int) /\ Len(buf) = 8 => buf \in [1 .. 8 -> Int]
      BY LenProperties
    <3> QED
      BY <1>1, <1>2, <2>1, <3>1 DEF FirstBlock
  <2>4. AuxRead'
    BY <1>2, <2>1, <2>3 DEF AuxRead, ReadBy, FirstBlock
  <2>5. AuxOurs'
    BY <2>1 DEF AuxInv, AuxTypes, AuxOurs
  <2>6. Aux!EdidIsWhole'
    BY <2>1, <2>2 DEF AuxTypes, Aux!EdidIsWhole
  <2> QED
    BY <2>2, <2>4, <2>5, <2>6 DEF AuxInv
<1>3. CASE ~(blk = 0 /\ ext /\ buf[8] = 7)
  <2>1. /\ auxBase' = IF blk = 0 THEN buf ELSE auxBase \o buf
        /\ auxPc' = "idle" /\ auxErr' = "nil" /\ UNCHANGED <<blk, step, buf>>
    BY <1>3 DEF Aux!Complete
  <2>2. AuxTypes' /\ AuxRead' /\ AuxOurs'
    BY <2>1 DEF AuxInv, AuxTypes, AuxRead, AuxOurs
  <2>3. ASSUME clean, blk = 0 PROVE auxBase' = [k \in 1 .. 8 |-> k - 1]
    <3>1. buf \in [1 .. 8 -> Int]
      BY <1>1, <2>3, LenProperties
    <3> QED
      BY <1>1, <2>1, <2>3, <3>1
  <2>4. ASSUME clean, blk = 1 PROVE ext /\ auxBase' = [k \in 1 .. 16 |-> k - 1]
    <3>1. auxBase \in Seq(Int) /\ Len(auxBase) = 8 /\ ext /\ \A k \in 1 .. 8 : auxBase[k] = k - 1
      BY <1>1, <2>4, FirstIsSeq
    <3>2. buf \in Seq(Int) /\ Len(buf) = 8 /\ \A k \in 1 .. 8 : buf[k] = k + 7
      BY <1>1, <2>4
    <3> QED
      <4>1. auxBase \o buf = [k \in 1 .. 16 |-> k - 1]
        BY <3>1, <3>2, TwoBlocks
      <4>2. auxBase' = auxBase \o buf
        BY <2>1, <2>4
      <4> QED
        BY <3>1, <4>1, <4>2
  <2>5. Aux!EdidIsWhole'
    BY <2>1, <2>3, <2>4 DEF AuxInv, AuxTypes, Aux!EdidIsWhole
  <2> QED
    BY <2>2, <2>5 DEF AuxInv
<1> QED
  BY <1>2, <1>3

(* An answer: the next transaction, the same one again, or the end.           *)
LEMMA AuxAnswer == ASSUME AuxInv, Aux!Answer PROVE AuxInv'
<1>1. /\ auxPc = "wait" /\ auxInt # {} /\ auxInt' = {}
      /\ UNCHANGED <<auxBusy, txn, status, auxData, ext, ptr, clean>>
      /\ step \in 1 .. 12 /\ blk \in {0, 1} /\ auxErr = "busy"
  BY DEF Aux!Answer, Aux!sink, AuxInv, AuxTypes
<1>2. CASE "done" \notin auxInt
  BY <1>1, <1>2, AuxFail DEF Aux!Answer
<1>3. CASE "done" \in auxInt
  <2>1. Aux!Reply(status)
    BY <1>3 DEF Aux!Answer
  <2>2. clean => /\ ~auxBusy
                 /\ \/ status = "defer" /\ step \in 4 .. 11 /\ ptr = PtrBy(step)
                    \/ /\ status # "defer"
                       /\ step \in 2 .. 11 => ptr = PtrBy(step + 1)
                       /\ step \in 4 .. 11 => auxData = 8 * blk + ReadBy(step)
    BY <1>1, <1>3 DEF AuxInv, AuxOurs
  <2>3. clean => /\ buf \in Seq(Int) /\ Len(buf) = ReadBy(step)
                 /\ \A k \in 1 .. Len(buf) : buf[k] = 8 * blk + k - 1
                 /\ IF blk = 0 THEN auxBase = <<>> ELSE ext /\ auxBase = FirstBlock
    BY <1>1 DEF AuxInv, AuxRead
  <2>4. CASE step = 12
    <3>1. Aux!Complete
      BY <2>1, <2>4, TxnNames DEF Aux!Reply
    <3>2. clean => ~auxBusy
      BY <2>2
    <3> QED
      BY <1>1, <2>4, <3>1, <3>2, AuxComplete
  <2>5. CASE Aux!Fail("timeout")
    BY <1>1, <2>5, AuxFail
  <2>6. CASE step # 12 /\ auxPc' = "fire" /\ UNCHANGED <<blk, step, buf, auxBase, auxErr>>
             /\ status = "defer" /\ step \in 4 .. 11
    <3>1. AuxTypes' /\ Aux!EdidIsWhole'
      BY <1>1, <2>6 DEF AuxInv, AuxTypes, Aux!EdidIsWhole
    <3>2. AuxRead'
      BY <1>1, <2>3, <2>6 DEF AuxRead
    <3>3. AuxOurs'
      BY <1>1, <2>2, <2>6 DEF AuxOurs, PtrBy
    <3> QED
      BY <3>1, <3>2, <3>3 DEF AuxInv
  <2>7. CASE /\ step # 12 /\ auxPc' = "fire" /\ step' = step + 1
             /\ UNCHANGED <<blk, auxBase, auxErr>>
             /\ step \in 4 .. 11 => status # "defer" /\ buf' = Append(buf, auxData)
             /\ step \notin 4 .. 11 => buf' = buf
    <3>1. AuxTypes' /\ Aux!EdidIsWhole'
      BY <1>1, <2>7 DEF AuxInv, AuxTypes, Aux!EdidIsWhole
    <3>2. AuxRead'
      <4> SUFFICES ASSUME clean PROVE AuxRead'
        BY <1>1 DEF AuxRead
      <4>1. /\ buf' \in Seq(Int) /\ Len(buf') = ReadBy(step + 1)
            /\ \A k \in 1 .. Len(buf') : buf'[k] = 8 * blk + k - 1
        <5>1. CASE step \in 4 .. 11
          <6>1. auxData = 8 * blk + ReadBy(step) /\ auxData \in Int
            BY <1>1, <2>2, <2>7, <5>1 DEF ReadBy
          <6>2. /\ buf' \in Seq(Int) /\ Len(buf') = Len(buf) + 1
                /\ \A k \in 1 .. Len(buf) : buf'[k] = buf[k]
                /\ buf'[Len(buf) + 1] = auxData
            <7>1. /\ Append(buf, auxData) \in Seq(Int)
                  /\ Len(Append(buf, auxData)) = Len(buf) + 1
                  /\ \A k \in 1 .. Len(buf) : Append(buf, auxData)[k] = buf[k]
                  /\ Append(buf, auxData)[Len(buf) + 1] = auxData
              BY <2>3, <6>1, AppendProperties
            <7> QED
              BY <2>7, <5>1, <7>1
          <6>3. ReadBy(step + 1) = ReadBy(step) + 1 /\ ReadBy(step) \in Nat
            BY <5>1 DEF ReadBy
          <6> QED
            <7>1. Len(buf) \in Nat /\ Len(buf) = ReadBy(step)
              BY <2>3, <6>3
            <7>2. \A k \in 1 .. Len(buf) : buf'[k] = 8 * blk + k - 1
              BY <2>3, <6>2
            <7>3. buf'[Len(buf) + 1] = 8 * blk + (Len(buf) + 1) - 1
              BY <1>1, <6>1, <6>2, <7>1
            <7>4. \A n \in Nat : \A k \in 1 .. n + 1 : k \in 1 .. n \/ k = n + 1
              OBVIOUS
            <7> QED
              BY <6>2, <6>3, <7>1, <7>2, <7>3, <7>4
        <5>2. CASE step \notin 4 .. 11
          <6>1. ReadBy(step + 1) = ReadBy(step)
            BY <1>1, <2>7, <5>2 DEF ReadBy
          <6> QED
            BY <2>3, <2>7, <5>2, <6>1
        <5> QED
          BY <5>1, <5>2
      <4>2. ReadBy(step)' = ReadBy(step + 1)
        BY <2>7 DEF ReadBy
      <4> QED
        BY <1>1, <2>3, <2>7, <4>1, <4>2 DEF AuxRead
    <3>3. PtrBy(step)' = PtrBy(step + 1)
      BY <2>7 DEF PtrBy, ReadBy
    <3>4. AuxOurs'
      BY <1>1, <2>2, <2>7, <3>3 DEF AuxOurs
    <3> QED
      BY <3>1, <3>2, <3>4 DEF AuxInv
  <2> QED
    BY <1>1, <2>1, <2>4, <2>5, <2>6, <2>7, TxnNames DEF Aux!Reply, Aux!Next1
<1> QED
  BY <1>2, <1>3

(* The inductive invariant of the AUX driver, its engine and the sink.        *)
THEOREM AuxInvHolds == ASSUME ~DeferWrites PROVE Aux!Spec => []AuxInv
<1>1. Aux!Init => AuxInv
  <2> SUFFICES ASSUME Aux!Init PROVE AuxInv
    OBVIOUS
  <2>1. auxPc = "idle" /\ auxErr = "none" /\ step = 1 /\ blk = 0
    BY DEF Aux!Init
  <2>2. auxBusy \in BOOLEAN /\ clean \in BOOLEAN /\ ext \in BOOLEAN
    BY DEF Aux!Init
  <2> QED
    BY <2>1, <2>2 DEF AuxInv, AuxTypes, AuxRead, AuxOurs, Aux!EdidIsWhole
<1>2. AuxInv /\ Aux!GiveUp => AuxInv'
  BY AuxFail DEF Aux!GiveUp, Aux!engine, Aux!sink
<1>3. ASSUME AuxInv, \/ Aux!Unplug \/ UNCHANGED Aux!vars
      PROVE  AuxInv'
  <2>1. UNCHANGED <<auxPc, blk, step, buf, auxBase, auxErr, auxBusy, txn, auxInt, status, auxData,
                    ext, ptr, clean>>
    BY <1>3 DEF Aux!Unplug, Aux!vars, Aux!drv, Aux!engine, Aux!sink
  <2>2. AuxTypes' /\ AuxRead' /\ Aux!EdidIsWhole'
    BY <1>3, <2>1 DEF AuxInv, AuxTypes, AuxRead, Aux!EdidIsWhole
  <2>3. Aux!Txn(step)' = Aux!Txn(step)
    BY <2>1 DEF Aux!Txn
  <2>4. AuxOurs'
    BY <1>3, <2>1, <2>3 DEF AuxInv, AuxOurs, PtrBy, ReadBy
  <2> QED
    BY <2>2, <2>4 DEF AuxInv
<1>4. AuxInv /\ [Aux!Next]_(Aux!vars) => AuxInv'
  BY <1>2, <1>3, AuxBegin, AuxFire, AuxAnswer, AuxFinish DEF Aux!Next
<1> QED
  BY <1>1, <1>4, PTL DEF Aux!Spec

(* With a sink that defers nothing but reads (aux_defer shows what happens    *)
(* otherwise), whatever ReadEDID has given up on before: an EDID it returns   *)
(* from an engine it found quiet is the sink's, every chunk in its place.     *)
THEOREM EdidsAreWhole == ASSUME ~DeferWrites PROVE Aux!Spec => []EdidIsWhole
<1>1. AuxInv => EdidIsWhole
  BY DEF AuxInv, EdidIsWhole
<1> QED
  BY <1>1, AuxInvHolds, PTL

(* What ReadEDID has in its buffers fits them, whatever the sink does and     *)
(* however late the engine answers: a block is the chunks read so far.        *)
AuxFits ==
  /\ auxPc \in {"idle", "fire", "wait"} /\ step \in 1 .. 12 /\ blk \in {0, 1}
  /\ retry \in 0 .. Retries - 1 /\ auxCalls \in 0 .. MaxCalls
  /\ auxErr \in {"none", "busy", "nohpd", "nil", "timeout"}
  /\ auxInt \subseteq {"done", "timeout"} /\ auxBusy \in BOOLEAN
  /\ ptr \in 0 .. 15 /\ auxData \in 0 .. 15 /\ txn[2] \in {0, 8}
  /\ buf \in Seq(0 .. 15) /\ Len(buf) = ReadBy(step)
  /\ auxBase \in Seq(0 .. 15) /\ Len(auxBase) <= 16
  /\ auxPc # "idle" => auxErr = "busy" /\ Len(auxBase) = 8 * blk

(* A reply read, or the block complete: the block grows by its chunk, and the *)
(* EDID by its block.                                                         *)
LEMMA AuxReplyFits ==
  ASSUME AuxFits, auxPc = "wait", Aux!Reply(status)
  PROVE  /\ auxPc' \in {"idle", "fire"} /\ step' \in 1 .. 12 /\ blk' \in {0, 1}
         /\ retry' \in 0 .. Retries - 1 /\ auxErr' \in {"busy", "nil", "timeout"}
         /\ buf' \in Seq(0 .. 15) /\ Len(buf') = ReadBy(step')
         /\ auxBase' \in Seq(0 .. 15) /\ Len(auxBase') <= 16
         /\ auxPc' # "idle" => auxErr' = "busy" /\ Len(auxBase') = 8 * blk'
<1> USE Bounds
<1>1. /\ auxErr = "busy" /\ Len(auxBase) = 8 * blk /\ Len(buf) = ReadBy(step)
      /\ buf \in Seq(0 .. 15) /\ auxBase \in Seq(0 .. 15) /\ auxData \in 0 .. 15
      /\ step \in 1 .. 12 /\ blk \in {0, 1} /\ retry \in 0 .. Retries - 1
  BY DEF AuxFits
<1>2. CASE step = 12
  <2>1. Aux!Complete
    BY <1>1, <1>2, TxnNames DEF Aux!Reply
  <2>2. Len(buf) = 8
    BY <1>1, <1>2 DEF ReadBy
  <2>3. CASE blk = 0 /\ ext /\ buf[8] = 7
    <3>1. /\ auxBase' = buf /\ blk' = 1 /\ step' = 1 /\ retry' = 0 /\ buf' = <<>>
          /\ auxPc' = "fire" /\ auxErr' = auxErr
      BY <2>1, <2>3 DEF Aux!Complete, Aux!Block
    <3>2. buf' \in Seq(0 .. 15) /\ Len(buf') = 0
      BY <3>1
    <3> QED
      BY <1>1, <2>2, <2>3, <3>1, <3>2 DEF ReadBy
  <2>4. CASE ~(blk = 0 /\ ext /\ buf[8] = 7)
    <3>1. /\ auxBase' = IF blk = 0 THEN buf ELSE auxBase \o buf
          /\ auxPc' = "idle" /\ auxErr' = "nil" /\ UNCHANGED <<blk, step, retry, buf>>
      BY <2>1, <2>4 DEF Aux!Complete
    <3>2. auxBase \o buf \in Seq(0 .. 15) /\ Len(auxBase \o buf) = Len(auxBase) + Len(buf)
      BY <1>1, ConcatProperties
    <3>3. auxBase' \in Seq(0 .. 15) /\ Len(auxBase') <= 16
      <4>1. CASE blk = 0
        <5>1. auxBase' = buf
          BY <3>1, <4>1
        <5>2. Len(auxBase') = 8
          BY <2>2, <5>1
        <5>3. auxBase' \in Seq(0 .. 15)
          BY <1>1, <5>1
        <5> QED
          BY <5>2, <5>3
      <4>2. CASE blk = 1
        BY <1>1, <2>2, <3>1, <3>2, <4>2
      <4> QED
        BY <1>1, <4>1, <4>2
    <3> QED
      BY <1>1, <3>1, <3>3
  <2> QED
    BY <2>3, <2>4
<1>3. CASE Aux!Txn(step) = "read"
  <2>1. step \in 4 .. 11
    BY <1>1, <1>3, TxnNames
  <2>2. CASE status = "defer" /\ retry + 1 = Retries
    <3>1. Aux!Fail("timeout")
      BY <1>3, <2>1, <2>2 DEF Aux!Reply
    <3> QED
      BY <1>1, <3>1 DEF Aux!Fail, AuxFits
  <2>3. CASE status = "defer" /\ retry + 1 # Retries
    <3>1. /\ retry' = retry + 1 /\ auxPc' = "fire"
          /\ UNCHANGED <<blk, step, buf, auxBase, auxErr>>
      BY <1>3, <2>1, <2>3 DEF Aux!Reply
    <3> QED
      BY <1>1, <2>3, <3>1 DEF AuxFits
  <2>4. CASE status # "defer"
    <3>1. buf' = Append(buf, auxData) /\ Aux!Next1
      BY <1>3, <2>1, <2>4 DEF Aux!Reply
    <3>2. buf' \in Seq(0 .. 15) /\ Len(buf') = Len(buf) + 1
      BY <1>1, <3>1
    <3> QED
      BY <1>1, <2>1, <3>1, <3>2 DEF Aux!Next1, ReadBy, AuxFits
  <2> QED
    BY <2>2, <2>3, <2>4
<1>4. CASE step # 12 /\ Aux!Txn(step) # "read"
  <2>1. step \in 1 .. 3
    BY <1>1, <1>4, TxnNames
  <2>2. UNCHANGED buf /\ Aux!Next1
    BY <1>4, <2>1 DEF Aux!Reply
  <2> QED
    BY <1>1, <2>1, <2>2 DEF Aux!Next1, ReadBy, AuxFits
<1> QED
  BY <1>2, <1>3, <1>4

(* No step of the driver, the engine or the sink overruns a buffer.           *)
LEMMA AuxFitsNext == AuxFits /\ [Aux!Next]_(Aux!vars) => AuxFits'
<1> SUFFICES ASSUME AuxFits, [Aux!Next]_(Aux!vars) PROVE AuxFits'
  OBVIOUS
<1> USE Bounds
<1>1. CASE Aux!ReadEDID
  BY <1>1 DEF Aux!ReadEDID, Aux!Block, Aux!engine, Aux!sink, AuxFits, ReadBy
<1>2. CASE Aux!Fire
  <2>1. txn'[2] \in {0, 8}
    BY <1>2 DEF Aux!Fire, AuxFits
  <2> QED
    BY <1>2, <2>1 DEF Aux!Fire, Aux!sink, AuxFits, ReadBy
<1>3. CASE Aux!Answer
  <2>1. /\ auxPc = "wait" /\ auxInt' = {} /\ (Aux!Reply(status) \/ Aux!Fail("timeout"))
        /\ UNCHANGED <<auxCalls, auxBusy, txn, auxData, ptr>>
    BY <1>3 DEF Aux!Answer, Aux!sink
  <2>2. CASE Aux!Reply(status)
    BY <2>1, <2>2, AuxReplyFits DEF AuxFits
  <2>3. CASE Aux!Fail("timeout")
    BY <2>1, <2>3 DEF Aux!Fail, AuxFits, ReadBy
  <2> QED
    BY <2>1, <2>2, <2>3
<1>4. CASE Aux!GiveUp
  BY <1>4 DEF Aux!GiveUp, Aux!Fail, Aux!engine, Aux!sink, AuxFits, ReadBy
<1>5. CASE Aux!Finish
  <2>1. /\ auxInt' \in {auxInt \cup {"done"}, auxInt \cup {"timeout"}} /\ auxBusy' = FALSE
        /\ UNCHANGED <<auxPc, blk, step, retry, buf, auxBase, auxErr, auxCalls, txn>>
    BY <1>5 DEF Aux!Finish, Aux!drv
  <2>2. ptr' \in {ptr, txn[2], (ptr + 1) % 16} /\ auxData' \in {auxData, ptr}
    BY <1>5 DEF Aux!Finish
  <2>3. ptr' \in 0 .. 15 /\ auxData' \in 0 .. 15
    BY <2>2 DEF AuxFits
  <2> QED
    BY <2>1, <2>3 DEF AuxFits, ReadBy
<1>6. CASE Aux!Unplug \/ UNCHANGED Aux!vars
  BY <1>6 DEF Aux!Unplug, Aux!vars, Aux!drv, Aux!engine, Aux!sink, AuxFits, ReadBy
<1> QED
  BY <1>1, <1>2, <1>3, <1>4, <1>5, <1>6 DEF Aux!Next

(* The invariants of the other drivers bound their buffers too: what has been *)
(* read of the OTP is no more than was asked for.                             *)
LEMMA OtpFits == ASSUME OtpInv PROVE Otp!TypeOK
<1> USE Bounds
<1>1. /\ otpCall.n \in Nat /\ otpSt \in {"idle", "issue", "wait"} /\ otpI \in Nat
      /\ otpErr \in {"nil", "busy", "length", "timeout", "failed"} /\ otpCalls \in 0 .. MaxCalls
      /\ fuse \in [0 .. Size -> Otp!Word]
  BY DEF OtpInv, OtpTypes, OtpCall, Fuses
<1>2. CASE Reading
  <2>1. otpCall.n <= Size /\ otpI <= Words
    BY <1>2 DEF OtpInv, OtpProgress
  <2>2. otpI <= Size
    BY <1>1, <2>1 DEF Words, Otp!WordsOf
  <2>3. Len(out) \in 0 .. Size
    <3>1. CASE otpCall.op = "ReadWords"
      BY <1>1, <2>2, <3>1 DEF OtpInv, OtpProgress
    <3>2. CASE otpCall.op = "ReadBytes"
      BY <1>1, <2>1, <3>2 DEF OtpInv, OtpProgress, BytesBy
    <3> QED
      BY <1>2, <3>1, <3>2 DEF Reading
  <2> QED
    BY <1>1, <2>2, <2>3 DEF Otp!TypeOK
<1>3. CASE ~Reading
  <2>1. otpI = 0 /\ Len(out) = 0
    BY <1>3 DEF OtpInv, OtpProgress
  <2> QED
    BY <1>1, <2>1 DEF Otp!TypeOK
<1> QED
  BY <1>2, <1>3

(* Type correctness of all four drivers, each by its own invariant.           *)
THEOREM TypesHold ==
  Port!Spec /\ Otp!Spec /\ Aux!Spec /\ Video!Spec => []TypesOK
<1>1. Aux!Init => AuxFits
  <2> SUFFICES ASSUME Aux!Init PROVE AuxFits
    OBVIOUS
  <2>1. txn = <<"stop", 0>> /\ buf = <<>> /\ auxBase = <<>>
    BY DEF Aux!Init
  <2>2. /\ auxPc = "idle" /\ step = 1 /\ blk = 0 /\ retry = 0 /\ auxCalls = 0 /\ auxErr = "none"
        /\ auxInt = {} /\ auxBusy = FALSE /\ ptr = 0 /\ auxData = 0
    BY DEF Aux!Init
  <2>3. /\ txn[2] \in {0, 8} /\ buf \in Seq(0 .. 15) /\ Len(buf) = 0
        /\ auxBase \in Seq(0 .. 15) /\ Len(auxBase) = 0
    BY <2>1
  <2>4. 0 \in 0 .. Retries - 1 /\ 0 \in 0 .. MaxCalls
    BY Bounds
  <2>5. ReadBy(step) = 0
    BY <2>2 DEF ReadBy
  <2>6. auxPc = "idle" /\ auxErr = "none" /\ auxInt \subseteq {"done", "timeout"}
    BY <2>2
  <2>7. /\ step \in 1 .. 12 /\ blk \in {0, 1} /\ ptr \in 0 .. 15 /\ auxData \in 0 .. 15
        /\ retry \in 0 .. Retries - 1 /\ auxCalls \in 0 .. MaxCalls
    BY <2>2, <2>4
  <2>8. auxBusy \in BOOLEAN
    BY <2>2
  <2> QED
    BY <2>3, <2>5, <2>6, <2>7, <2>8 DEF AuxFits
<1>2. AuxFits => Aux!TypeOK
  <2> SUFFICES ASSUME AuxFits PROVE Aux!TypeOK
    OBVIOUS
  <2>1. ReadBy(step) \in 0 .. 8
    BY DEF AuxFits, ReadBy
  <2>2. Len(buf) <= 8
    BY <2>1 DEF AuxFits
  <2> QED
    BY <2>2 DEF AuxFits, Aux!TypeOK
<1>3. Aux!Spec => []AuxFits
  BY <1>1, AuxFitsNext, PTL DEF Aux!Spec
<1>4. VideoInv => Video!TypeOK
  BY DEF VideoInv
<1>5. Port!TypeOK /\ Otp!TypeOK /\ Aux!TypeOK /\ Video!TypeOK => TypesOK
  BY DEF TypesOK
<1>6. OtpInv => Otp!TypeOK
  BY OtpFits
<1> QED
  BY <1>2, <1>3, <1>4, <1>5, <1>6, PortTypes, OtpInvHolds, VideoInvHolds, PTL

-----------------------------------------------------------------------------
(* The decoding register holds every segment it can express (segment.go).     *)

(* The generations' constants, and what their masks keep inside the window.   *)
LEMMA SegmentConstants ==
  /\ Seg!Unit("AST2600") = 16 /\ Seg!Window("AST2600") = 4096
  /\ Seg!Unit("AST2700") = 1 /\ Seg!Window("AST2700") = 65536
  BY DEF Seg!Unit, Seg!Window

(* What the AST2600 decodes of an offset inside its window: its whole units.  *)
LEMMA Decoded2600 ==
  ASSUME NEW v \in 0 .. 4095
  PROVE  Seg!Decoded("AST2600", v) = (v \div 16) * 16
<1>1. (v \div 16) % 256 = v \div 16
  BY SMT
<1> QED
  BY <1>1 DEF Seg!Decoded

(* The AST2700 decodes every offset inside its window as it is.               *)
LEMMA Decoded2700 ==
  ASSUME NEW v \in Nat, v < 65536
  PROVE  Seg!Decoded("AST2700", v) = v
<1>1. v % 65536 = v
  BY SMT
<1> QED
  BY <1>1 DEF Seg!Decoded

(* A unit's base decodes to itself, its last 64 KiB to its base.              *)
LEMMA UnitBounds ==
  ASSUME NEW a \in 0 .. 255
  PROVE  Seg!Decoded("AST2600", 16 * a) = 16 * a /\ Seg!Decoded("AST2600", 16 * a + 15) = 16 * a
<1>1. /\ 16 * a \in 0 .. 4095 /\ 16 * a + 15 \in 0 .. 4095
      /\ (16 * a) \div 16 = a /\ (16 * a + 15) \div 16 = a /\ a * 16 = 16 * a
  BY SMT
<1> QED
  BY <1>1, Decoded2600

(* What SegmentEncode returns for aligned arguments.                          *)
LEMMA Encoded2600 ==
  ASSUME NEW start \in Nat, NEW len \in Nat, start % 16 = 0, len % 16 = 0
  PROVE  Seg!SegmentEncode("AST2600", start, len) =
           [ok |-> TRUE, sf |-> Seg!Decoded("AST2600", start),
            ef |-> Seg!Decoded("AST2600", IF len = 0 THEN start ELSE start + len - 1)]
<1>1. /\ ~(start < 0) /\ ~(len < 0)
      /\ ~(start % Seg!Unit("AST2600") # 0) /\ ~(len % Seg!Unit("AST2600") # 0)
  BY SegmentConstants, SMT
<1>2. CASE len = 0
  BY <1>1, <1>2, Zenon DEF Seg!SegmentEncode
<1>3. CASE len # 0
  BY <1>1, <1>3, Zenon DEF Seg!SegmentEncode
<1> QED
  BY <1>2, <1>3

(* SegmentEncode of the AST2700 accepts every start and size, and an empty    *)
(* segment ends where it starts.                                              *)
LEMMA Encoded2700 ==
  ASSUME NEW start \in Nat, NEW len \in Nat
  PROVE  Seg!SegmentEncode("AST2700", start, len) =
           [ok |-> TRUE, sf |-> Seg!Decoded("AST2700", start),
            ef |-> Seg!Decoded("AST2700", IF len = 0 THEN start ELSE start + len)]
<1>1. /\ ~(start < 0) /\ ~(len < 0)
      /\ ~(start % Seg!Unit("AST2700") # 0) /\ ~(len % Seg!Unit("AST2700") # 0)
  BY SegmentConstants, SMT
<1>2. "AST2700" # "AST2600"
  OBVIOUS
<1>3. CASE len = 0
  BY <1>1, <1>2, <1>3, Zenon DEF Seg!SegmentEncode
<1>4. CASE len # 0
  BY <1>1, <1>2, <1>4, Zenon DEF Seg!SegmentEncode
<1> QED
  BY <1>3, <1>4

(* Every representable segment survives the trip through the register, for all *)
(* starts and sizes.                                                          *)
THEOREM RoundTrip ==
  ASSUME NEW soc \in Seg!SoCs, NEW start \in Int, NEW len \in Int
  PROVE  Seg!SegmentRoundTrip(soc, start, len)
<1> SUFFICES ASSUME Seg!Representable(soc, start, len)
             PROVE  /\ Seg!SegmentEncode(soc, start, len).ok
                    /\ Seg!SegmentDecode(soc, Seg!SegmentEncode(soc, start, len))
                         = [start |-> start, size |-> len]
  BY DEF Seg!SegmentRoundTrip
<1>1. CASE soc = "AST2600"
  <2>1. /\ start \in Nat /\ len \in Nat /\ start <= 4095 /\ start + len <= 4096
        /\ start % 16 = 0 /\ len % 16 = 0 /\ len # 16
    BY <1>1, SegmentConstants DEF Seg!Representable
  <2>2. PICK a \in 0 .. 255 : start = 16 * a
    <3>1. start = 16 * (start \div 16) /\ start \div 16 \in 0 .. 255
      BY <2>1, SMT
    <3> QED
      BY <3>1
  <2>3. PICK b \in 0 .. 256 : len = 16 * b
    <3>1. len = 16 * (len \div 16) /\ len \div 16 \in 0 .. 256
      BY <2>1, SMT
    <3> QED
      BY <3>1
  <2>4. Seg!Decoded("AST2600", start) = start
    BY <2>2, UnitBounds
  <2>5. CASE len = 0
    <3>1. Seg!SegmentEncode(soc, start, len) = [ok |-> TRUE, sf |-> start, ef |-> start]
      BY <1>1, <2>1, <2>4, <2>5, Encoded2600
    <3> QED
      BY <1>1, <2>4, <2>5, <3>1 DEF Seg!SegmentDecode
  <2>6. CASE len # 0
    <3>1. /\ a + b - 1 \in 0 .. 255 /\ start + len - 1 = 16 * (a + b - 1) + 15
          /\ 16 * (a + b - 1) = start + len - 16 /\ start + len - 16 # start
      BY <2>1, <2>2, <2>3, <2>6, SMT
    <3>2. /\ Seg!Decoded("AST2600", start + len - 1) = start + len - 16
          /\ Seg!Decoded("AST2600", start + len - 16) = start + len - 16
      BY <3>1, UnitBounds
    <3>3. Seg!SegmentEncode(soc, start, len)
            = [ok |-> TRUE, sf |-> start, ef |-> start + len - 16]
      BY <1>1, <2>1, <2>4, <2>6, <3>2, Encoded2600
    <3>4. start + len - 16 - start + 16 = len
      BY <2>1, SMT
    <3> QED
      BY <1>1, <2>4, <3>1, <3>2, <3>3, <3>4, SegmentConstants DEF Seg!SegmentDecode
  <2> QED
    BY <2>5, <2>6
<1>2. CASE soc = "AST2700"
  <2>1. start \in Nat /\ len \in Nat /\ start + len < 65536
    BY <1>2, SegmentConstants DEF Seg!Representable
  <2>2. start < 65536 /\ start + len \in Nat
    BY <2>1, SMT
  <2>3. Seg!Decoded("AST2700", start) = start /\ Seg!Decoded("AST2700", start + len) = start + len
    BY <2>1, <2>2, Decoded2700
  <2>4. start + len - start + 0 = len /\ (len # 0 => start + len # start)
    BY <2>1, SMT
  <2>5. CASE len = 0
    <3>1. Seg!SegmentEncode(soc, start, len) = [ok |-> TRUE, sf |-> start, ef |-> start]
      BY <1>2, <2>1, <2>3, <2>5, Encoded2700
    <3> QED
      BY <1>2, <2>3, <2>5, <3>1 DEF Seg!SegmentDecode
  <2>6. CASE len # 0
    <3>1. Seg!SegmentEncode(soc, start, len)
            = [ok |-> TRUE, sf |-> start, ef |-> start + len]
      BY <1>2, <2>1, <2>3, <2>6, Encoded2700
    <3> QED
      BY <1>2, <2>3, <2>4, <2>6, <3>1 DEF Seg!SegmentDecode
  <2> QED
    BY <2>5, <2>6
<1> QED
  BY <1>1, <1>2 DEF Seg!SoCs

(* One unit of the AST2600 is encoded without an error and decodes as nothing. *)
THEOREM OneUnitDisables ==
  ASSUME NEW a \in 0 .. 255
  PROVE  /\ Seg!SegmentEncode("AST2600", 16 * a, 16).ok
         /\ Seg!SegmentDecode("AST2600", Seg!SegmentEncode("AST2600", 16 * a, 16)).size = 0
<1>1. /\ 16 * a \in Nat /\ (16 * a) % 16 = 0 /\ 16 % 16 = 0 /\ 16 # 0
      /\ 16 * a + 16 - 1 = 16 * a + 15
  BY SMT
<1>2. Seg!SegmentEncode("AST2600", 16 * a, 16)
        = [ok |-> TRUE, sf |-> Seg!Decoded("AST2600", 16 * a),
           ef |-> Seg!Decoded("AST2600", 16 * a + 16 - 1)]
  BY <1>1, Encoded2600
<1>3. /\ Seg!Decoded("AST2600", 16 * a) = 16 * a
      /\ Seg!Decoded("AST2600", 16 * a + 16 - 1) = 16 * a
  BY <1>1, UnitBounds
<1> QED
  BY <1>2, <1>3 DEF Seg!SegmentDecode

(* Every segment the decoding register can express is decoded as it was       *)
(* encoded (segment.go), for all starts and sizes.                            *)
THEOREM SegmentsRoundTrip ==
  ASSUME on = "segment" => input \in Seg!SoCs \X Int \X Int
  PROVE  SegmentRoundTrip
  BY RoundTrip DEF SegmentRoundTrip

-----------------------------------------------------------------------------
(* FillRect clips every rectangle exactly (framebuffer.go).                   *)

(* A pixel has two bytes or four.                                             *)
LEMMA BppValues == \A pf \in Fb!Formats : Fb!Bpp(pf) \in {2, 4}
  BY DEF Fb!Formats, Fb!Bpp

(* Clipping keeps the coordinates that are on the screen.                     *)
LEMMA Clipped ==
  ASSUME NEW a \in Int, NEW n \in Int, NEW top \in Nat, NEW v \in Int
  PROVE  /\ Fb!Start(a) \in Int /\ Fb!Extent(a, n, top) \in Int
         /\ v \in Fb!Start(a) .. Fb!Start(a) + Fb!Extent(a, n, top) - 1
              <=> v \in a .. a + n - 1 /\ ~(v < 0) /\ ~(v >= top)
  BY DEF Fb!Start, Fb!Extent

(* A pixel on the screen is inside Buf.                                       *)
LEMMA RowsFit ==
  ASSUME NEW W \in Nat, NEW H \in Nat, NEW S \in Nat, NEW b \in {2, 4}, S >= W * b,
         NEW x \in 0 .. W - 1, NEW y \in 0 .. H - 1, NEW k \in 0 .. b - 1
  PROVE  y * S + x * b + k \in Int /\ 0 <= y * S + x * b + k /\ y * S + x * b + k < S * H
<1>1. x * b + k < S /\ x * b + k >= 0
  <2>1. CASE b = 2
    BY <2>1
  <2>2. CASE b = 4
    BY <2>2
  <2> QED
    BY <2>1, <2>2
<1>2. y * S >= 0 /\ y * S + S <= S * H
  <2>1. PICK d \in Nat : H = y + 1 + d
    <3>1. H - y - 1 \in Nat /\ H = y + 1 + (H - y - 1)
      OBVIOUS
    <3> QED
      BY <3>1
  <2>2. S * (y + 1 + d) = y * S + S + d * S /\ d * S >= 0 /\ y * S >= 0
    BY SMT
  <2> QED
    BY <2>1, <2>2
<1> QED
  BY <1>1, <1>2

(* Every rectangle of integers is clipped exactly, on every framebuffer whose *)
(* rows hold their pixels (FillRect).                                         *)
THEOREM FillRectClips ==
  ASSUME NEW fb, Fb!Valid(fb), NEW c,
         NEW x \in Int, NEW y \in Int, NEW w \in Int, NEW h \in Int
  PROVE  Fb!ClipExact(fb, x, y, w, h, c)
<1> DEFINE B == Fb!Bpp(fb.Format)
           X == Fb!Start(x)
           Y == Fb!Start(y)
           WW == Fb!Extent(x, w, fb.Width)
           HH == Fb!Extent(y, h, fb.Height)
           At(xx, yy) == yy * fb.Stride + xx * B
           On(xx, yy) == /\ xx \in x .. x + w - 1 /\ ~(xx < 0) /\ ~(xx >= fb.Width)
                         /\ yy \in y .. y + h - 1 /\ ~(yy < 0) /\ ~(yy >= fb.Height)
<1>1. /\ fb.Width \in Nat /\ fb.Height \in Nat /\ fb.Stride \in Nat /\ B \in {2, 4}
      /\ fb.Stride >= fb.Width * B
  BY BppValues DEF Fb!Valid
<1>2. /\ X \in Int /\ Y \in Int /\ WW \in Int /\ HH \in Int
      /\ \A xx, yy \in Int : xx \in X .. X + WW - 1 /\ yy \in Y .. Y + HH - 1 <=> On(xx, yy)
  BY <1>1, Clipped
<1>3. \A xx, yy \in Int : On(xx, yy) => Fb!SetPixel(fb, xx, yy, c) = Fb!Put(fb, At(xx, yy), c)
  BY Zenon DEF Fb!SetPixel
<1>4. \A xx, yy \in Int : Fb!SetPixel(fb, xx, yy, c) # {} => ~(xx < 0) /\ ~(xx >= fb.Width)
                                               /\ ~(yy < 0) /\ ~(yy >= fb.Height)
  BY Zenon DEF Fb!SetPixel
<1>5. ASSUME NEW v PROVE v \in Fb!FillRect(fb, x, y, w, h, c)
                           <=> \E xx, yy \in Int : On(xx, yy) /\ v \in Fb!Put(fb, At(xx, yy), c)
  <2>1. v \in Fb!FillRect(fb, x, y, w, h, c)
          <=> \E yy \in Y .. Y + HH - 1, off \in 0 .. WW - 1 :
                v \in Fb!Put(fb, (yy * fb.Stride + X * B) + off * B, c)
    <3>1. v \in Fb!FillRect(fb, x, y, w, h, c)
            <=> \E yy \in Y .. Y + HH - 1 : v \in Fb!Row(fb, X, yy, WW, c)
      BY Zenon DEF Fb!FillRect, Fb!Rows
    <3>2. \A yy : v \in Fb!Row(fb, X, yy, WW, c)
                  <=> \E off \in 0 .. WW - 1 :
                        v \in Fb!Put(fb, (yy * fb.Stride + X * B) + off * B, c)
      BY Zenon DEF Fb!Row
    <3> QED
      BY <3>1, <3>2, Zenon
  <2>2. ASSUME NEW yy \in Y .. Y + HH - 1, NEW off \in 0 .. WW - 1
        PROVE  /\ yy \in Int /\ X + off \in Int /\ On(X + off, yy)
               /\ (yy * fb.Stride + X * B) + off * B = At(X + off, yy)
    <3>1. yy \in Int /\ off \in Int /\ X + off \in X .. X + WW - 1 /\ X + off \in Int
      BY <1>2
    <3>2. X * B + off * B = (X + off) * B
      BY <1>1, <1>2, <3>1, SMT
    <3>3. (yy * fb.Stride + X * B) + off * B = yy * fb.Stride + (X + off) * B
      BY <1>1, <1>2, <3>1, <3>2, SMT
    <3> QED
      BY <1>2, <3>1, <3>3
  <2>3. ASSUME NEW xx \in Int, NEW yy \in Int, On(xx, yy)
        PROVE  /\ yy \in Y .. Y + HH - 1 /\ xx - X \in 0 .. WW - 1
               /\ (yy * fb.Stride + X * B) + (xx - X) * B = At(xx, yy)
    <3>1. xx \in X .. X + WW - 1 /\ yy \in Y .. Y + HH - 1 /\ xx - X \in 0 .. WW - 1
      BY <1>2, <2>3
    <3>2. X * B + (xx - X) * B = xx * B
      BY <1>1, <1>2, SMT
    <3>3. (yy * fb.Stride + X * B) + (xx - X) * B = yy * fb.Stride + xx * B
      BY <1>1, <1>2, <3>1, <3>2, SMT
    <3> QED
      BY <3>1, <3>3
  <2>4. ASSUME v \in Fb!FillRect(fb, x, y, w, h, c)
        PROVE  \E xx, yy \in Int : On(xx, yy) /\ v \in Fb!Put(fb, At(xx, yy), c)
    BY <2>1, <2>2, <2>4
  <2>5. ASSUME NEW xx \in Int, NEW yy \in Int, On(xx, yy), v \in Fb!Put(fb, At(xx, yy), c)
        PROVE  v \in Fb!FillRect(fb, x, y, w, h, c)
    BY <2>1, <2>3, <2>5
  <2> QED
    BY <2>4, <2>5
<1>6. ASSUME NEW v
      PROVE  v \in Fb!Pixels(fb, x, y, w, h, c)
               <=> \E xx, yy \in Int : On(xx, yy) /\ v \in Fb!Put(fb, At(xx, yy), c)
  <2>1. v \in Fb!Pixels(fb, x, y, w, h, c)
          <=> \E xx \in x .. x + w - 1, yy \in y .. y + h - 1 : v \in Fb!SetPixel(fb, xx, yy, c)
    <3>1. v \in Fb!Pixels(fb, x, y, w, h, c)
            <=> \E yy \in y .. y + h - 1 : v \in Fb!PixelRow(fb, x, yy, w, c)
      BY Zenon DEF Fb!Pixels
    <3>2. \A yy : v \in Fb!PixelRow(fb, x, yy, w, c)
                  <=> \E xx \in x .. x + w - 1 : v \in Fb!SetPixel(fb, xx, yy, c)
      BY Zenon DEF Fb!PixelRow
    <3> QED
      BY <3>1, <3>2, Zenon
  <2>2. x .. x + w - 1 \subseteq Int /\ y .. y + h - 1 \subseteq Int
    OBVIOUS
  <2>3. ASSUME NEW xx \in x .. x + w - 1, NEW yy \in y .. y + h - 1,
               v \in Fb!SetPixel(fb, xx, yy, c)
        PROVE  /\ xx \in Int /\ yy \in Int /\ On(xx, yy)
               /\ v \in Fb!Put(fb, At(xx, yy), c)
    BY <1>3, <1>4, <2>2, <2>3, Zenon
  <2>4. ASSUME NEW xx \in Int, NEW yy \in Int, On(xx, yy), v \in Fb!Put(fb, At(xx, yy), c)
        PROVE  xx \in x .. x + w - 1 /\ yy \in y .. y + h - 1 /\ v \in Fb!SetPixel(fb, xx, yy, c)
    BY <1>3, <2>4, Zenon
  <2> QED
    BY <2>1, <2>3, <2>4, Zenon
<1>7. Fb!FillRect(fb, x, y, w, h, c) = Fb!Pixels(fb, x, y, w, h, c)
  BY <1>5, <1>6
<1>8. ASSUME NEW v \in Fb!FillRect(fb, x, y, w, h, c) PROVE Fb!InBuf(fb, v[1])
  <2>1. PICK xx \in Int, yy \in Int : On(xx, yy) /\ v \in Fb!Put(fb, At(xx, yy), c)
    BY <1>5
  <2>2. PICK k \in 0 .. B - 1 : v[1] = At(xx, yy) + k
    BY <2>1 DEF Fb!Put
  <2>3. xx \in 0 .. fb.Width - 1 /\ yy \in 0 .. fb.Height - 1
    BY <1>1, <2>1
  <2> QED
    BY <1>1, <2>2, <2>3, RowsFit DEF Fb!InBuf
<1> QED
  BY <1>7, <1>8 DEF Fb!ClipExact

(* On every screen whose rows hold their pixels, FillRect, HLine, VLine and   *)
(* Fill write the visible pixels of what they draw and nothing else           *)
(* (framebuffer.go).                                                          *)
THEOREM DrawingClips ==
  ASSUME on = "clip" =>
           \E fb : \E x, y, w, h \in Int : Fb!Valid(fb) /\ input = <<fb, x, y, w, h>>
  PROVE  ClipExact
<1> SUFFICES ASSUME NEW fb, Fb!Valid(fb), NEW x \in Int, NEW y \in Int, NEW w \in Int,
                    NEW h \in Int, input = <<fb, x, y, w, h>>
             PROVE  /\ Fb!ClipExact(fb, x, y, w, h, Orange)
                    /\ w > 0 => /\ Fb!HLine(fb, x + w - 1, x, y, Orange)
                                     = Fb!Pixels(fb, x, y, w, 1, Orange)
                                /\ Fb!VLine(fb, x, y, y + w - 1, Orange)
                                     = Fb!Pixels(fb, x, y, 1, w, Orange)
                    /\ Fb!Fill(fb, Orange) = Fb!Pixels(fb, 0, 0, fb.Width, fb.Height, Orange)
  BY DEF ClipExact
<1>1. ASSUME NEW a \in Int, NEW b \in Int, NEW m \in Int, NEW n \in Int
      PROVE  Fb!FillRect(fb, a, b, m, n, Orange) = Fb!Pixels(fb, a, b, m, n, Orange)
  BY FillRectClips DEF Fb!ClipExact
<1>2. ASSUME NEW a \in Int, w > 0
      PROVE  /\ Fb!Low(a + w - 1, a) = a /\ Fb!Low(a, a + w - 1) = a
             /\ Fb!High(a + w - 1, a) - a + 1 = w /\ Fb!High(a, a + w - 1) - a + 1 = w
  BY <1>2 DEF Fb!Low, Fb!High
<1>3. w > 0 => Fb!HLine(fb, x + w - 1, x, y, Orange) = Fb!Pixels(fb, x, y, w, 1, Orange)
  BY <1>1, <1>2 DEF Fb!HLine
<1>4. w > 0 => Fb!VLine(fb, x, y, y + w - 1, Orange) = Fb!Pixels(fb, x, y, 1, w, Orange)
  BY <1>1, <1>2 DEF Fb!VLine
<1>5. fb.Width \in Int /\ fb.Height \in Int
  BY DEF Fb!Valid
<1>6. Fb!Fill(fb, Orange) = Fb!Pixels(fb, 0, 0, fb.Width, fb.Height, Orange)
  BY <1>1, <1>5 DEF Fb!Fill
<1> QED
  BY <1>3, <1>4, <1>6, FillRectClips

-----------------------------------------------------------------------------
(* The pixel clock's divider.                                                 *)

(* What \div is.                                                              *)
LEMMA Quotient ==
  ASSUME NEW a \in Int, NEW b \in Nat \ {0}
  PROVE  a \div b \in Int /\ b * (a \div b) <= a /\ a < b * (a \div b) + b
  OBVIOUS

(* A factor keeps an order.                                                   *)
LEMMA Scales ==
  ASSUME NEW a \in Int, NEW b \in Int, NEW c \in Nat \ {0}
  PROVE  a < b <=> a * c < b * c
  OBVIOUS

(* And one that is not strict.                                                *)
LEMMA Times ==
  ASSUME NEW a \in Int, NEW b \in Int, NEW c \in Nat
  PROVE  a <= b => a * c <= b * c
  OBVIOUS

(* The product of two is what is nearest to a: half a divisor away at most.    *)
LEMMA Rounded ==
  ASSUME NEW a \in Int, NEW h \in Nat \ {0}
  PROVE  LET r == (a + h \div 2) \div h IN
         /\ r \in Int /\ 2 * Disp!Abs(h * r - a) <= h
         /\ \A s \in Int : Disp!Abs(h * r - a) <= Disp!Abs(h * s - a)
<1> DEFINE r == (a + h \div 2) \div h
<1>1. h \div 2 \in Int /\ 2 * (h \div 2) <= h /\ h <= 2 * (h \div 2) + 1
  OBVIOUS
<1>2. r \in Int /\ h * r <= a + h \div 2 /\ a + h \div 2 < h * r + h
  BY <1>1, Quotient
<1> HIDE DEF r
<1> PICK x \in Int : x = h * r
  BY <1>2
<1>3. 2 * (x - a) <= h /\ 2 * (a - x) <= h
  BY <1>1, <1>2
<1>4. 2 * Disp!Abs(h * r - a) <= h
  BY <1>3 DEF Disp!Abs
<1>5. ASSUME NEW s \in Int PROVE Disp!Abs(h * r - a) <= Disp!Abs(h * s - a)
  <2>1. h * s \in Int /\ h * r \in Int
    BY <1>2
  <2>2. CASE s >= r + 1
    <3>1. h * s >= h * r + h
      BY <1>2, <2>2, Times
    <3> QED
      BY <1>3, <2>1, <3>1 DEF Disp!Abs
  <2>3. CASE s <= r - 1
    <3>1. h * s <= h * r - h
      BY <1>2, <2>3, Times
    <3> QED
      BY <1>3, <2>1, <3>1 DEF Disp!Abs
  <2>4. CASE s = r
    BY <2>1, <2>4 DEF Disp!Abs
  <2> QED
    BY <1>2, <2>2, <2>3, <2>4
<1> QED
  BY <1>2, <1>4, <1>5 DEF r

(* What whole numbers lose.                                                    *)
LEMMA WholeError ==
  ASSUME NEW a \in Int, NEW p \in Int, NEW n \in Nat \ {0}
  PROVE  LET e == Disp!Abs(a \div n - p)  d == Disp!Abs(a - p * n) IN
         e \in Nat /\ d \in Nat /\ d < (e + 1) * n /\ e * n < d + n
<1> PICK q \in Int : q = a \div n /\ q * n <= a /\ a < q * n + n
  BY Quotient
<1> PICK e : e = Disp!Abs(q - p)
  OBVIOUS
<1> PICK d : d = Disp!Abs(a - p * n)
  OBVIOUS
<1>1. e \in Nat /\ (e = q - p \/ e = p - q)
  BY DEF Disp!Abs
<1>2. p * n \in Int /\ q * n \in Int /\ (q - p) * n = q * n - p * n /\ (p - q) * n = p * n - q * n
  OBVIOUS
<1>3. d \in Nat /\ (d = a - p * n \/ d = p * n - a)
  BY <1>2 DEF Disp!Abs
<1>4. CASE q >= p
  <2>1. q * n >= p * n
    BY <1>4, Times
  <2>2. e = q - p /\ d = a - p * n
    BY <1>2, <1>4, <2>1 DEF Disp!Abs
  <2> QED
    BY <1>1, <1>2, <1>3, <2>2
<1>5. CASE q < p
  <2>1. (q + 1) * n <= p * n
    BY <1>5, Times
  <2>2. (q + 1) * n = q * n + n
    OBVIOUS
  <2>3. e = p - q /\ d = p * n - a
    BY <1>2, <1>5, <2>1, <2>2 DEF Disp!Abs
  <2> QED
    BY <1>1, <1>2, <1>3, <2>3
<1> QED
  BY <1>1, <1>3, <1>4, <1>5

(* A set of naturals has a least element.                                     *)
LEMMA Least ==
  ASSUME NEW T \in SUBSET Nat, T # {}
  PROVE  \E x \in T : \A y \in T : x <= y
<1>1. IsWellFoundedOn(OpToRel(<, Nat), Nat)
  BY NatLessThanWellFounded
<1>2. PICK x \in T : \A y \in T : ~ (<<y, x>> \in OpToRel(<, Nat))
  BY <1>1, WFMin
<1>3. \A y \in T : ~(y < x)
  BY <1>2 DEF OpToRel
<1> QED
  BY <1>3

(* Which N have an R.                                                          *)
LEMMA Reachable ==
  ASSUME NEW p \in Nat \ {0}, NEW h \in Nat \ {0}, p <= h, NEW n \in Nat \ {0}
  PROVE  LET r == (p * n + h \div 2) \div h IN
         r \in Int /\ r <= n /\ (1 <= r <=> h <= 2 * p * n)
<1> PICK a \in Nat : a = p * n
  OBVIOUS
<1> PICK k \in Nat : k = h \div 2 /\ 2 * k <= h /\ h <= 2 * k + 1
  OBVIOUS
<1>1. a + k \in Nat
  OBVIOUS
<1> PICK r \in Int : r = (a + k) \div h /\ h * r <= a + k /\ a + k < h * r + h
  BY <1>1, Quotient
<1>2. r <= n
  <2>1. a <= h * n
    BY Times
  <2> SUFFICES ASSUME n + 1 <= r PROVE FALSE
    OBVIOUS
  <2>2. (n + 1) * h <= r * h
    BY Times
  <2>3. (n + 1) * h = h * n + h /\ r * h = h * r
    OBVIOUS
  <2> QED
    BY <2>1, <2>2, <2>3
<1>3. ASSUME 1 <= r PROVE h <= a + k
  <2>1. 1 * h <= r * h
    BY <1>3, Times
  <2> QED
    BY <2>1
<1>4. ASSUME r <= 0 PROVE a + k < h
  <2>1. r * h <= 0 * h
    BY <1>4, Times
  <2> QED
    BY <2>1
<1>5. 2 * p * n = 2 * a
  OBVIOUS
<1>6. h <= 2 * a <=> h <= a + k
  OBVIOUS
<1>7. 1 <= r <=> h <= a + k
  BY <1>3, <1>4
<1>8. r = (p * n + h \div 2) \div h
  OBVIOUS
<1> QED
  BY <1>2, <1>5, <1>6, <1>7, <1>8

(* What the search compares: a divider whose whole kilohertz are no worse is  *)
(* at most 2 kHz worse than any other of that N, and every divider of an N    *)
(* that it skips is worse.                                                    *)
LEMMA Nearer ==
  ASSUME NEW p \in Nat \ {0}, NEW h \in Nat \ {0}, NEW n0 \in Nat \ {0}, NEW n \in Nat \ {0},
         NEW r0 \in Int, NEW r \in Int, NEW s \in Nat \ {0}, h <= 2 * p * n0,
         2 * Disp!Abs(h * r0 - p * n0) <= h,
         Disp!Abs(h * r - p * n) <= Disp!Abs(h * s - p * n),
         h <= 2 * p * n =>
           Disp!Abs((h * r0) \div n0 - p) <= Disp!Abs((h * r) \div n - p)
  PROVE  Disp!Abs(h * r0 - p * n0) * n < (Disp!Abs(h * s - p * n) + 2 * n) * n0
<1> PICK d0 : d0 = Disp!Abs(h * r0 - p * n0)
  OBVIOUS
<1> PICK d : d = Disp!Abs(h * r - p * n)
  OBVIOUS
<1> PICK dq : dq = Disp!Abs(h * s - p * n)
  OBVIOUS
<1> PICK e0 : e0 = Disp!Abs((h * r0) \div n0 - p)
  OBVIOUS
<1> PICK e : e = Disp!Abs((h * r) \div n - p)
  OBVIOUS
<1>1. e0 \in Nat /\ d0 \in Nat /\ d0 < (e0 + 1) * n0
  <2> PICK x \in Int : x = h * r0
    OBVIOUS
  <2>0. p \in Int
    OBVIOUS
  <2>1. /\ Disp!Abs(x \div n0 - p) \in Nat /\ Disp!Abs(x - p * n0) \in Nat
        /\ Disp!Abs(x - p * n0) < (Disp!Abs(x \div n0 - p) + 1) * n0
    BY <2>0, WholeError, Zenon
  <2> QED
    BY <2>1, Zenon
<1>2. e \in Nat /\ d \in Nat /\ e * n < d + n
  <2> PICK x \in Int : x = h * r
    OBVIOUS
  <2>0. p \in Int
    OBVIOUS
  <2>1. /\ Disp!Abs(x \div n - p) \in Nat /\ Disp!Abs(x - p * n) \in Nat
        /\ Disp!Abs(x \div n - p) * n < Disp!Abs(x - p * n) + n
    BY <2>0, WholeError, Zenon
  <2> QED
    BY <2>1, Zenon
<1>3. dq \in Nat
  <2>1. h * s - p * n \in Int
    OBVIOUS
  <2> QED
    BY <2>1 DEF Disp!Abs
<1>4. CASE h <= 2 * p * n
  <2>1. e0 <= e /\ d <= dq
    BY <1>4, Zenon
  <2>2. d0 * n < ((e0 + 1) * n0) * n
    BY <1>1, Scales
  <2>3. (e0 + 1) * n <= (e + 1) * n
    BY <1>1, <1>2, <2>1, Times
  <2>4. (e + 1) * n = e * n + n
    BY <1>2
  <2>5. (e0 + 1) * n \in Int /\ e * n \in Int /\ d0 * n \in Int
    BY <1>1, <1>2
  <2>6. (e0 + 1) * n < dq + 2 * n
    BY <1>2, <1>3, <2>1, <2>3, <2>4, <2>5
  <2>7. ((e0 + 1) * n) * n0 < (dq + 2 * n) * n0
    BY <1>3, <2>5, <2>6, Scales
  <2>8. ((e0 + 1) * n) * n0 = ((e0 + 1) * n0) * n
    BY <1>1
  <2> QED
    BY <1>3, <2>2, <2>5, <2>7, <2>8
<1>5. CASE 2 * p * n < h
  <2> PICK a \in Nat : a = p * n
    OBVIOUS
  <2> PICK b \in Nat : b = p * n0
    OBVIOUS
  <2>1. 2 * a < h /\ h <= 2 * b
    BY <1>5
  <2>2. n < n0
    <3> SUFFICES ASSUME n0 <= n PROVE FALSE
      OBVIOUS
    <3>1. n0 * p <= n * p
      BY Times
    <3> QED
      BY <2>1, <3>1
  <2>3. h <= h * s
    <3>1. 1 * h <= s * h
      BY Times
    <3> QED
      BY <3>1
  <2>4. dq >= h - a
    <3> PICK y \in Int : y = h * s
      OBVIOUS
    <3>1. dq = y - a
      BY <2>1, <2>3 DEF Disp!Abs
    <3> QED
      BY <2>3, <3>1
  <2>5. d0 < dq
    BY <1>1, <1>3, <2>1, <2>4
  <2>6. d0 * n < dq * n
    BY <1>1, <1>3, <2>5, Scales
  <2>7. n * dq <= n0 * dq /\ 0 * n0 <= (2 * n) * n0
    BY <1>3, <2>2, Times
  <2>8. (dq + 2 * n) * n0 = n0 * dq + (2 * n) * n0 /\ dq * n = n * dq
    BY <1>3
  <2>9. d0 * n \in Int /\ n * dq \in Int /\ n0 * dq \in Int /\ (2 * n) * n0 \in Int
    BY <1>1, <1>3
  <2> QED
    BY <2>6, <2>7, <2>8, <2>9
<1> QED
  BY <1>4, <1>5

(* For any N there is, and any clock.                                          *)
LEMMA Divider ==
  ASSUME NEW p \in Int, NEW x \in Int, CrtClkRNMax \in Nat
  PROVE  Disp!ClockIsNear(p, x)
<1> DEFINE M == CrtClkRNMax
           rr == [n \in 1 .. M |-> (p * n + (x \div 2) \div 2) \div (x \div 2)]
           ns == {n \in 1 .. M : 1 <= rr[n] /\ rr[n] <= n}
           off(n) == Disp!Abs(((x \div 2) * rr[n]) \div n - p)
           best == {n \in ns : \A k \in ns : off(n) <= off(k)}
           P == Disp!CRT1CLKParam(p, x)
<1>1. P = IF p <= 0 \/ x <= 0 \/ p > x \div 2 \/ ns = {} THEN <<>>
          ELSE <<[r |-> rr[Disp!Min(best)], n |-> Disp!Min(best)]>>
  BY DEF Disp!CRT1CLKParam
<1> PICK h \in Int : h = x \div 2
  OBVIOUS
<1>2. CASE p <= 0 \/ x <= 0 \/ p > h
  <2>1. P = <<>>
    BY <1>1, <1>2
  <2>2. p <= 0 \/ p > h
    BY <1>2
  <2> HIDE DEF P
  <2> QED
    BY <2>1, <2>2 DEF Disp!ClockIsNear, P
<1>3. CASE 0 < p /\ 0 < x /\ p <= h
  <2>1. p \in Nat \ {0} /\ h \in Nat \ {0}
    BY <1>3
  <2>2. \A n \in 1 .. M : rr[n] = (p * n + h \div 2) \div h
    OBVIOUS
  <2>3. ASSUME NEW n \in 1 .. M
        PROVE  /\ rr[n] \in Int /\ rr[n] <= n /\ (1 <= rr[n] <=> h <= 2 * p * n)
               /\ 2 * Disp!Abs(h * rr[n] - p * n) <= h
               /\ \A s \in Int : Disp!Abs(h * rr[n] - p * n) <= Disp!Abs(h * s - p * n)
    <3> PICK a \in Int : a = p * n
      BY <2>1
    <3> PICK r : r = (a + h \div 2) \div h
      OBVIOUS
    <3>1. r = rr[n]
      BY <2>2
    <3>2. r \in Int /\ 2 * Disp!Abs(h * r - a) <= h
          /\ \A s \in Int : Disp!Abs(h * r - a) <= Disp!Abs(h * s - a)
      BY <2>1, Rounded
    <3>3. r <= n /\ (1 <= r <=> h <= 2 * p * n)
      BY <1>3, <2>1, Reachable
    <3> HIDE DEF rr
    <3> QED
      BY <3>1, <3>2, <3>3
  <2>4. ASSUME NEW n \in 1 .. M
        PROVE  (n \in ns <=> h <= 2 * p * n) /\ (n \in ns => off(n) \in Nat)
    <3>1. n \in ns <=> 1 <= rr[n] /\ rr[n] <= n
      OBVIOUS
    <3>2. off(n) \in Nat
      <4> PICK a \in Int : a = h * rr[n]
        BY <2>1, <2>3
      <4>0. p \in Int /\ n \in Nat \ {0}
        OBVIOUS
      <4>1. Disp!Abs(a \div n - p) \in Nat
        BY <4>0, WholeError, Zenon
      <4> HIDE DEF rr
      <4> QED
        BY <4>1, Zenon
    <3> HIDE DEF ns, rr, off
    <3> QED
      BY <2>3, <3>1, <3>2
  <2>5. ns = {} <=> 2 * p * M < h
    <3> SUFFICES (\E n \in 1 .. M : h <= 2 * p * n) <=> h <= 2 * p * M
      <4> HIDE DEF rr, off
      <4> QED
        BY <2>4
    <3>1. ASSUME NEW n \in 1 .. M, h <= 2 * p * n PROVE h <= 2 * p * M
      <4>1. n * (2 * p) <= M * (2 * p)
        BY <2>1, Times
      <4> QED
        BY <2>1, <3>1, <4>1
    <3>2. ASSUME h <= 2 * p * M PROVE M \in 1 .. M
      BY <2>1, <3>2
    <3> QED
      BY <3>1, <3>2
  <2>6. CASE ns = {}
    <3>1. P = <<>>
      BY <1>1, <2>6
    <3>2. 2 * p * M < h
      BY <2>5, <2>6
    <3> HIDE DEF P
    <3> QED
      BY <3>1, <3>2 DEF Disp!ClockIsNear, P
  <2>7. CASE ns # {}
    <3>1. PICK n0 : n0 \in ns /\ (\A k \in ns : off(n0) <= off(k)) /\ n0 = Disp!Min(best)
      <4> DEFINE T == {off(n) : n \in ns}
      <4>1. T \in SUBSET Nat /\ T # {} /\ ns \in SUBSET (1 .. M)
        <5>1. ns \in SUBSET (1 .. M)
          OBVIOUS
        <5> HIDE DEF ns, off
        <5> QED
          BY <2>4, <2>7, <5>1
      <4>2. PICK e \in T : \A y \in T : e <= y
        <5> HIDE DEF T
        <5> QED
          BY <4>1, Least
      <4>3. best # {} /\ best \in SUBSET Nat /\ best \subseteq ns
        <5>1. PICK n1 \in ns : e = off(n1)
          <6> HIDE DEF ns, off
          <6> QED
            BY <4>2
        <5>2. \A k \in ns : off(n1) <= off(k)
          <6> HIDE DEF ns, off
          <6> QED
            BY <4>2, <5>1, Zenon
        <5> HIDE DEF ns, off
        <5> QED
          BY <4>1, <5>1, <5>2
      <4>4. \E y \in best : \A z \in best : y <= z
        <5> HIDE DEF best
        <5> QED
          BY <4>3, Least
      <4>5. Disp!Min(best) \in best
        <5> HIDE DEF best
        <5> QED
          BY <4>4 DEF Disp!Min
      <4> HIDE DEF ns, off
      <4> QED
        BY <4>5
    <3>2. n0 \in 1 .. M /\ h <= 2 * p * n0
      <4>1. n0 \in 1 .. M
        BY <3>1
      <4> HIDE DEF ns, rr, off
      <4> QED
        BY <2>4, <3>1, <4>1
    <3> PICK r0 : r0 = rr[n0]
      OBVIOUS
    <3>3. P = <<[r |-> r0, n |-> n0]>>
      <4> HIDE DEF ns, rr, best
      <4> QED
        BY <1>1, <1>3, <2>7, <3>1
    <3>4. r0 \in 1 .. n0
      <4>1. r0 \in Int /\ 1 <= r0 /\ r0 <= n0
        <5> HIDE DEF rr
        <5> QED
          BY <2>3, <3>2
      <4> QED
        BY <4>1
    <3>5. ASSUME NEW s \in 1 .. M, NEW n \in 1 .. M
          PROVE  Disp!Abs(h * r0 - p * n0) * n < (Disp!Abs(h * s - p * n) + 2 * n) * n0
      <4> PICK r : r = rr[n]
        OBVIOUS
      <4>1. r \in Int /\ Disp!Abs(h * r - p * n) <= Disp!Abs(h * s - p * n)
        <5> HIDE DEF rr
        <5> QED
          BY <2>3
      <4>2. 2 * Disp!Abs(h * r0 - p * n0) <= h
        <5> HIDE DEF rr
        <5> QED
          BY <2>3, <3>2
      <4>3. ASSUME h <= 2 * p * n
            PROVE  Disp!Abs((h * r0) \div n0 - p) <= Disp!Abs((h * r) \div n - p)
        <5>1. n \in ns
          <6> HIDE DEF ns, rr, off
          <6> QED
            BY <2>4, <4>3
        <5>2. off(n0) <= off(n)
          <6> HIDE DEF ns, off
          <6> QED
            BY <3>1, <5>1
        <5> HIDE DEF ns, rr
        <5> QED
          BY <5>2, Zenon
      <4>4. n \in Nat \ {0} /\ n0 \in Nat \ {0} /\ s \in Nat \ {0} /\ r0 \in Int
        BY <3>2, <3>4
      <4> HIDE DEF ns, rr, off, best
      <4> QED
        BY <2>1, <3>2, <4>1, <4>2, <4>3, <4>4, Nearer
    <3>6. ~(2 * p * M < h)
      <4> HIDE DEF ns, rr, off
      <4> QED
        BY <2>5, <2>7
    <3>7. <<P[1].r, P[1].n>> \in (1 .. M) \X (1 .. M) /\ P[1].r = r0 /\ P[1].n = n0 /\ P # <<>>
      <4> HIDE DEF P
      <4> QED
        BY <3>2, <3>3, <3>4
    <3>8. r0 <= n0
      BY <3>4
    <3> DEFINE RN == {q \in (1 .. M) \X (1 .. M) : q[1] <= q[2]}
    <3>9. <<P[1].r, P[1].n>> \in RN
      <4> HIDE DEF P
      <4> QED
        BY <3>7, <3>8
    <3>10. ASSUME NEW q \in RN
           PROVE  Disp!Abs(h * r0 - p * n0) * q[2]
                    < (Disp!Abs(h * q[1] - p * q[2]) + 2 * q[2]) * n0
      <4>1. q[1] \in 1 .. M /\ q[2] \in 1 .. M
        OBVIOUS
      <4> HIDE DEF RN
      <4> QED
        BY <3>5, <4>1, Zenon
    <3>11. P = <<>> <=> p <= 0 \/ p > h \/ 2 * p * M < h
      <4> HIDE DEF P
      <4> QED
        BY <1>3, <3>6, <3>7
    <3> HIDE DEF ns, rr, off, best
    <3> QED
      BY <3>7, <3>9, <3>10, <3>11, Zenon DEF Disp!ClockIsNear
  <2> QED
    BY <2>6, <2>7
<1> QED
  BY <1>2, <1>3

(* The divider is less than 2 kHz worse than the best there is (modes.go), for *)
(* all clocks and any width of the fields of R and N.                          *)
THEOREM ClocksAreNear ==
  ASSUME on = "clock" => input \in Int \X BOOLEAN
  PROVE  ClockIsNear
<1> SUFFICES ASSUME on = "clock" PROVE Disp!ClockIsNear(input[1], Disp!XDCLKkHz(input[2]))
  BY DEF ClockIsNear
<1>1. input[1] \in Int /\ CrtClkRNMax \in Nat
  BY Bounds
<1>2. Disp!XDCLKkHz(input[2]) \in Int
  BY DEF Disp!XDCLKkHz
<1> QED
  BY <1>1, <1>2, Divider
=============================================================================
