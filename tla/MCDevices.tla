------------------------------ MODULE MCDevices ------------------------------
(* The drivers of Devices, the PHY and the bring-up programs side by side in one *)
(* run: "on" names the one a behaviour is about, the others stay where they     *)
(* start.  The algorithms' inputs are initial states of their own.             *)
EXTENDS Devices, PhyBus, Bringup

portVars == <<portPc, ps, attempt, after, portsc, ending, dev, portCalls, plugs, changed, stable>>
otpVars ==
  <<otpSt, otpCall, otpI, out, otpErr, ecc, ready, otpCalls, key, otpBusy, cmd, pass, otpData,
    fuse, otpIdle, fuse0>>
auxVars ==
  <<auxPc, blk, step, retry, buf, auxBase, auxErr, auxCalls, auxBusy, txn, auxInt, status,
    auxData, ext, ptr, hpd, clean>>
videoVars ==
  <<pc, call, calls, err, got, fmt, cap, comp, det, int, source, stream, size, geometry,
    quiet, late>>

-----------------------------------------------------------------------------
(* Every mode is advertised but full-duplex 100 Mbit/s; there is no partner, a *)
(* slow one whose best mode is that one, and a gigabit one.                    *)
F(s) == M(s, TRUE)
H(s) == M(s, FALSE)
MCAbilities == {{F(1000), H(100), F(10), H(10), H(1000)}}
MCPartners == {{}, {H(10), F(100)}, {F(1000), H(1000), H(100), F(10)}}

(* Segments in steps of half a unit, around both windows' ends.                *)
Segments ==
  {<<"AST2600", s, z>> : s \in {0, 8, 16, 32, 4064, 4080, 4096}, z \in {0, 8, 16, 32, 4064, 4080}}
  \cup {<<"AST2700", s, z>> : s \in {0, 1, 4095, 65535}, z \in {0, 1, 4096, 65534, 65535}}

(* Rectangles that start and end on, before and beyond a 3 by 2 screen.        *)
Screens == {Fb!New([Width |-> 3, Height |-> 2, Stride |-> s, Format |-> f]) :
              s \in {0, 14}, f \in Fb!Formats}
Rectangles == {<<fb, x, y, w, h>> : fb \in Screens, x \in -2 .. 4, y \in {-1, 0, 1, 2},
                                    w \in {-1, 0, 1, 3, 7}, h \in {0, 1, 4}}

(* Displays with a supported, an unsupported and a small timing, and pixel     *)
(* clocks of the mode table, too slow, too fast, and one that 1/38 would meet  *)
(* better than the 1/37 the search prefers.                                    *)
DTD(khz, ha, hb, hf, hs, va, vb, vf, vs, interlaced) ==
  [PixelClockKHz |-> khz, HActive |-> ha, HBlank |-> hb, HFrontPorch |-> hf,
   HSyncWidth |-> hs, VActive |-> va, VBlank |-> vb, VFrontPorch |-> vf,
   VSyncWidth |-> vs, Interlaced |-> interlaced]
FullHD == DTD(148500, 1920, 280, 88, 44, 1080, 45, 4, 5, FALSE)
UHD == DTD(533250, 3840, 1300, 638, 341, 2160, 300, 42, 53, TRUE)
SVGA == DTD(40000, 800, 256, 40, 128, 600, 28, 1, 4, FALSE)
Displays ==
  {[slots |-> <<a, b, <<>>, c>>, est |-> e, ext |-> 1,
    std |-> [k \in 1 .. 8 |-> IF k = 3 THEN s ELSE IF k = 8 THEN t ELSE <<>>]] :
     a \in {<<>>, FullHD, UHD, SVGA}, b \in {<<>>, FullHD, UHD}, c \in {<<>>, SVGA},
     e \in {<<0, 0, 0>>, <<32, 8, 0>>, <<255, 255, 128>>},
     s \in {<<>>, <<1280, 3>>, <<1920, 1>>}, t \in {<<>>, <<1280, 3>>}}
Clocks == {0, 4000, 13335, 250000, 500000, 500001} \cup {Disp!modeTable[k].PixelClockKHz : k \in 1 .. 7}

(* All four vHub ports, two to a PHY, and three modes; every unit of a USB       *)
(* bring-up is dead in some behaviour.                                          *)
MCPorts == {"A1", "A0", "B1", "B0"}
MCModes == {5, 21, Odd}
MCDeadSets == {{}, {"A1", "B0", "ehci"}, {"A0", "B1", "D"}}

MCInit ==
  /\ on \in {"port", "otp", "aux", "video", "phy", "bringup", "segment", "clip", "edid", "clock"}
  /\ Port!Init /\ (on = "port" \/ dev = "none")
  /\ Otp!Init /\ (on = "otp" \/ \A a \in DOMAIN fuse : fuse[a] = <<0, 0>>)
  /\ Aux!Init /\ (on = "aux" \/ (~ext /\ ~hpd))
  /\ Video!Init
  /\ BootInit /\ (on = "bringup" \/ dead = {})
  /\ Init
  /\ CASE on = "segment" -> input \in Segments
       [] on = "clip" -> input \in Rectangles
       [] on = "edid" -> input \in Displays \X {8, 128}
       [] on = "clock" -> input \in Clocks \X {TRUE, FALSE}
       [] OTHER -> input = <<>>

PortStep ==
  /\ on = "port" /\ Port!Next
  /\ UNCHANGED <<on, input, otpVars, auxVars, videoVars, bootVars, vars>>
OtpStep ==
  /\ on = "otp" /\ Otp!Next
  /\ UNCHANGED <<on, input, portVars, auxVars, videoVars, bootVars, vars>>
AuxStep ==
  /\ on = "aux" /\ Aux!Next
  /\ UNCHANGED <<on, input, portVars, otpVars, videoVars, bootVars, vars>>
VideoStep ==
  /\ on = "video" /\ Video!Next
  /\ UNCHANGED <<on, input, portVars, otpVars, auxVars, bootVars, vars>>
PhyStep ==
  /\ on = "phy" /\ Next
  /\ UNCHANGED <<on, input, portVars, otpVars, auxVars, videoVars, bootVars>>

BootStep ==
  /\ on = "bringup" /\ BootNext
  /\ UNCHANGED <<on, input, portVars, otpVars, auxVars, videoVars, vars>>

MCNext == PortStep \/ OtpStep \/ AuxStep \/ VideoStep \/ PhyStep \/ BootStep

MCSpec ==
  MCInit /\ [][MCNext]_<<on, input, portVars, otpVars, auxVars, videoVars, bootVars, vars>>
=============================================================================
