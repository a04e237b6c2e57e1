------------------------------ MODULE Devices -------------------------------
(* The drivers that share nothing, each an instance with variables of its own,  *)
(* and the algorithms with their input.  "on" names the one a behaviour is      *)
(* about.                                                                      *)
EXTENDS Integers, Sequences

CONSTANTS MaxCalls, MaxPlugs,         \* bounds, as in the components
          Size,                       \* Otp
          Retries, DeferWrites,       \* DpAux
          Sizes, Room,                \* Video
          CrtClkRNMax                 \* Modes

(* The proofs need no more; Video's parameters may be anything.                *)
ASSUME Bounds ==
  /\ MaxCalls \in Nat /\ MaxPlugs \in Nat /\ Size \in Nat
  /\ Retries \in Nat \ {0} /\ CrtClkRNMax \in Nat

VARIABLES
  on, input,
  (* EhciPort *)
  portPc, ps, attempt, after, portsc, ending, dev, portCalls, plugs, changed, stable,
  (* Otp *)
  otpSt, otpCall, otpI, out, otpErr, ecc, ready, otpCalls, key, otpBusy, cmd, pass, otpData,
  fuse, otpIdle, fuse0,
  (* DpAux *)
  auxPc, blk, step, retry, buf, auxBase, auxErr, auxCalls, auxBusy, txn, auxInt, status,
  auxData, ext, ptr, hpd, clean,
  (* Video *)
  pc, call, calls, err, got, fmt, cap, comp, det, int, source, stream, size, geometry, quiet,
  late

Port == INSTANCE EhciPort WITH pc <- portPc, calls <- portCalls
Otp == INSTANCE Otp WITH
         st <- otpSt, call <- otpCall, i <- otpI, err <- otpErr, calls <- otpCalls,
         busy <- otpBusy, rdata <- otpData, idle0 <- otpIdle
Aux == INSTANCE DpAux WITH
         pc <- auxPc, base <- auxBase, err <- auxErr, calls <- auxCalls, busy <- auxBusy,
         int <- auxInt, rdata <- auxData
Video == INSTANCE Video
Seg == INSTANCE Segment
Fb == INSTANCE Framebuffer
Disp == INSTANCE Modes

-----------------------------------------------------------------------------
(* The components' type invariants.                                            *)
TypesOK == Port!TypeOK /\ Otp!TypeOK /\ Aux!TypeOK /\ Video!TypeOK

(* No write of PORTSC loses a connect change, or the enable of a high-speed    *)
(* device that stays put (ehci.go ResetPort).                                  *)
SwapIsSeen == Port!SwapIsSeen
StableIsEnabled == Port!StableIsEnabled
(* What otp.go reports set or read is what the fuses hold.                     *)
OtpReportsAreTrue == Otp!OtpReportsAreTrue
(* An EDID that dpaux.go's ReadEDID returns is the sink's, in order.           *)
EdidIsWhole == Aux!EdidIsWhole
(* A frame or a mode that videoengine.go returns is of this very call.         *)
ResultIsFresh == Video!ResultIsFresh
(* segment.go decodes every segment it can express as it was encoded.          *)
SegmentRoundTrip == on = "segment" => Seg!SegmentRoundTrip(input[1], input[2], input[3])
Orange == [r |-> 250, g |-> 129, b |-> 7]
(* framebuffer.go's rectangles and lines write exactly their visible pixels.   *)
ClipExact ==
  on = "clip" =>
    LET fb == input[1]  x == input[2]  y == input[3]  w == input[4]  h == input[5] IN
    /\ Fb!ClipExact(fb, x, y, w, h, Orange)
    /\ w > 0 => /\ Fb!HLine(fb, x + w - 1, x, y, Orange) = Fb!Pixels(fb, x, y, w, 1, Orange)
                /\ Fb!VLine(fb, x, y, y + w - 1, Orange) = Fb!Pixels(fb, x, y, 1, w, Orange)
    /\ Fb!Fill(fb, Orange) = Fb!Pixels(fb, 0, 0, fb.Width, fb.Height, Orange)
(* The mode for a display's EDID is its preferred one or the largest there is. *)
BestModeIsRead == on = "edid" => Disp!BestModeIsRead(input[1], input[2])
(* modes.go finds a CRT clock divider when there is one, less than 2 kHz worse  *)
(* than the best.                                                              *)
ClockIsNear == on = "clock" => Disp!ClockIsNear(input[1], Disp!XDCLKkHz(input[2]))
(* The divider is the closest to the pixel clock, as the doc says (modes.go).  *)
ClockIsClosest == on = "clock" => Disp!ClockIsClosest(input[1], Disp!XDCLKkHz(input[2]))
=============================================================================
