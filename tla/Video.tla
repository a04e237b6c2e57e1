-------------------------------- MODULE Video --------------------------------
(* hal/videoengine: configuration, mode detection and frame capture against    *)
(* the engine's capture and compression units and its interrupt status.  A     *)
(* frame and a geometry are the number of the call that asked for them.        *)
EXTENDS Integers

CONSTANTS MaxCalls,     \* bound: calls
          Sizes, Room   \* compressed sizes of a frame; len(dst)

VARIABLES
  pc, call, calls,      \* the driver's step, its call, and the call's number
  err, got,             \* what it returns: error, frame or geometry
  fmt,                  \* SEQ_CTRL's format bits
  cap, comp, det,       \* the units: the call they work for, 0 when idle
  int,                  \* INTERRUPT_STATUS
  source, stream, size, geometry,   \* what is in the buffers and the read-backs
  quiet, late           \* history: idle when the call began; error after its wait

drv == <<pc, call, calls, err, got>>
engine == <<fmt, cap, comp, det, int, source, stream, size, geometry>>
vars == <<drv, engine, quiet, late>>

Frame(by, f) == [by |-> by, fmt |-> f]
None == Frame(0, {})
Errors == {"error"}
Least(a, b) == IF a < b THEN a ELSE b

Init ==
  /\ pc = "idle" /\ call = "none" /\ calls = 0 /\ err = "none" /\ got = <<None, 0>>
  /\ fmt = {} /\ cap = 0 /\ comp = 0 /\ det = 0 /\ int = {}
  /\ source = None /\ stream = None /\ size = 0 /\ geometry = 0
  /\ quiet = TRUE /\ late = FALSE

Begin(op) ==
  /\ pc = "idle" /\ calls < MaxCalls
  /\ call' = op /\ calls' = calls + 1 /\ got' = <<None, 0>>
  /\ err' = IF op \in {"DetectMode", "CaptureFrame"} THEN "busy" ELSE "none"
  /\ quiet' = (cap = 0 /\ comp = 0 /\ det = 0) /\ late' = FALSE

-----------------------------------------------------------------------------
(* Reset forces idle, and with one write clears the format; Configure adds to  *)
(* the format that is there; InitForCapture is the one and then the other.     *)
Stopped == cap' = 0 /\ comp' = 0 /\ det' = 0 /\ int' = {}

Reset ==
  /\ Begin("Reset") /\ fmt' = {} /\ Stopped
  /\ UNCHANGED <<pc, source, stream, size, geometry>>

Configure ==
  /\ Begin("Configure") /\ \E f \in SUBSET {"jpeg", "yuv420"} : fmt' = fmt \cup f
  /\ UNCHANGED <<pc, cap, comp, det, int, source, stream, size, geometry>>

InitForCapture ==
  /\ Begin("InitForCapture") /\ fmt' \in SUBSET {"jpeg", "yuv420"} /\ Stopped
  /\ UNCHANGED <<pc, source, stream, size, geometry>>

(* A trigger; a unit that is still at work does not take another.              *)
Pulled(unit) == IF unit = 0 THEN calls' ELSE unit
PullFrame == cap' = Pulled(cap) /\ comp' = Pulled(comp) /\ UNCHANGED det
PullDetect == det' = Pulled(det) /\ UNCHANGED <<cap, comp>>

(* The triggers callers pull on their own: no wait.                            *)
Trigger ==
  /\ \/ Begin("TriggerFrame") /\ PullFrame
     \/ Begin("TriggerCapture") /\ cap' = Pulled(cap) /\ UNCHANGED <<comp, det>>
     \/ Begin("TriggerCompression") /\ comp' = Pulled(comp) /\ UNCHANGED <<cap, det>>
     \/ Begin("TriggerModeDetect") /\ PullDetect
  /\ UNCHANGED <<pc, fmt, int, source, stream, size, geometry>>

AckInterrupts ==
  /\ Begin("AckInterrupts") /\ int' = {}
  /\ UNCHANGED <<pc, fmt, cap, comp, det, source, stream, size, geometry>>

(* DetectMode and CaptureFrame acknowledge what is pending, then trigger.      *)
Waiting ==
  /\ \E op \in {"DetectMode", "CaptureFrame"} : Begin(op)
  /\ int' = {} /\ pc' = "trigger"
  /\ UNCHANGED <<fmt, cap, comp, det, source, stream, size, geometry>>

Pull ==
  /\ pc = "trigger" /\ pc' = "wait"
  /\ UNCHANGED <<call, calls, err, got, fmt, int, source, stream, size, geometry, quiet, late>>
  /\ IF call = "DetectMode" THEN PullDetect ELSE PullFrame

Return(e) == pc' = "idle" /\ err' = e
Mask == IF call = "DetectMode" THEN {"modeDetect"} ELSE {"capture", "compress", "frame"}

(* WaitInterrupt: every look acknowledges all there is.                        *)
WaitInterrupt ==
  /\ pc = "wait" /\ int' = {}
  /\ IF int \cap Errors # {} THEN Return("hardware") /\ UNCHANGED got
     ELSE IF int \cap Mask = {} THEN UNCHANGED <<pc, err, got>>
     ELSE IF call = "DetectMode" THEN Return("nil") /\ got' = <<None, geometry>>
     ELSE pc' = "settle" /\ UNCHANGED <<err, got>>
  /\ UNCHANGED <<call, calls, fmt, cap, comp, det, source, stream, size, geometry, quiet, late>>

(* The bytes up to the size read back, and no more than there is room for.     *)
(* CaptureFrame copies nothing: dst is taken to be the buffer that Configure   *)
(* gave the compression unit.                                                  *)
Bytes == <<stream, Least(size, Room)>>

(* Mutant: the compression is not waited for.                                  *)
NoWait ==
  /\ pc = "settle" /\ Return("nil") /\ got' = Bytes
  /\ UNCHANGED <<call, calls, engine, quiet, late>>

WaitIdle ==
  /\ pc = "settle" /\ cap = 0 /\ comp = 0 /\ Return("nil") /\ got' = Bytes
  /\ UNCHANGED <<call, calls, engine, quiet, late>>

Deadline ==
  /\ pc \in {"wait", "settle"} /\ Return("timeout")
  /\ UNCHANGED <<call, calls, got, engine, quiet, late>>

-----------------------------------------------------------------------------
(* The engine.  A frame's compression follows its capture.                     *)
Captured ==
  /\ cap # 0 /\ cap' = 0 /\ source' = Frame(cap, fmt) /\ int' = int \cup {"capture"}
  /\ UNCHANGED <<drv, fmt, comp, det, stream, size, geometry, quiet, late>>

Compressed ==
  /\ comp # 0 /\ cap = 0 /\ comp' = 0 /\ int' = int \cup {"compress", "frame"}
  /\ stream' = source /\ size' \in Sizes
  /\ UNCHANGED <<drv, fmt, cap, det, source, geometry, quiet, late>>

Detected ==
  /\ det # 0 /\ det' = 0 /\ geometry' = det /\ int' = int \cup {"modeDetect"}
  /\ UNCHANGED <<drv, fmt, cap, comp, source, stream, size, quiet, late>>

(* An error ends what the units were doing.                                    *)
HardwareError ==
  /\ cap # 0 \/ comp # 0 \/ det # 0
  /\ cap' = 0 /\ comp' = 0 /\ det' = 0 /\ int' = int \cup Errors
  /\ late' = (late \/ pc = "settle")
  /\ UNCHANGED <<drv, fmt, source, stream, size, geometry, quiet>>

Next ==
  \/ Reset \/ Configure \/ InitForCapture \/ Trigger \/ AckInterrupts
  \/ Waiting \/ Pull \/ WaitInterrupt
  \/ WaitIdle \/ Deadline \/ Captured \/ Compressed \/ Detected \/ HardwareError

Spec == Init /\ [][Next]_vars

-----------------------------------------------------------------------------
TypeOK ==
  /\ pc \in {"idle", "trigger", "wait", "settle"} /\ calls \in 0 .. MaxCalls
  /\ err \in {"none", "busy", "nil", "hardware", "timeout"}
  /\ {cap, comp, det, geometry} \subseteq 0 .. MaxCalls /\ size \in Sizes \cup {0}
  /\ int \subseteq {"capture", "compress", "frame", "modeDetect"} \cup Errors

(* What CaptureFrame and DetectMode return, when the engine was idle as they   *)
(* began, was captured, compressed and measured for this very call, in the     *)
(* format configured; the exception is a compression that fails after          *)
(* WaitInterrupt has returned, and it leaves its error interrupt pending.      *)
ResultIsFresh ==
  quiet /\ err = "nil" =>
    CASE call = "DetectMode" -> got[2] = calls
      [] call = "CaptureFrame" ->
           \/ got[1] = Frame(calls, fmt) /\ got[2] = Least(size, Room)
           \/ late /\ "error" \in int
      [] OTHER -> TRUE
=============================================================================
