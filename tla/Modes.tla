-------------------------------- MODULE Modes --------------------------------
(* hal/aspeedgfx/modes.go: the display mode for an EDID, its DISPLAY_FORMAT    *)
(* word, and the CRT1CLK divider for a pixel clock.                            *)
EXTENDS Edid, FiniteSetsExt

CONSTANT CrtClkRNMax    \* bound: the largest R and N (the fields hold 65535)

Mode(w, h, ht, hs, he, vt, vs, ve, khz, index) ==
  [Width |-> w, Height |-> h, HTotal |-> ht, HSyncStart |-> hs, HSyncEnd |-> he,
   VTotal |-> vt, VSyncStart |-> vs, VSyncEnd |-> ve, PixelClockKHz |-> khz,
   ModeIndex |-> index]
modeTable ==
  <<Mode(640, 480, 800, 656, 752, 525, 490, 492, 25175, 0),
    Mode(800, 600, 1056, 840, 968, 628, 601, 605, 40000, 5),
    Mode(1024, 768, 1344, 1048, 1184, 806, 771, 777, 65000, 9),
    Mode(1280, 1024, 1688, 1328, 1440, 1066, 1025, 1028, 108000, 13),
    Mode(1600, 1200, 2160, 1664, 1856, 1250, 1201, 1204, 162000, 16),
    Mode(1920, 1080, 2200, 2008, 2052, 1125, 1084, 1089, 148500, 21),
    Mode(1920, 1200, 2080, 1968, 2000, 1235, 1203, 1209, 154000, 20)>>

(* A search returns a sequence, empty when it finds nothing.                   *)
ModeForResolution(w, h) ==
  LET hits == SelectSeq(modeTable, LAMBDA m : m.Width = w /\ m.Height = h)
  IN IF hits = <<>> THEN <<>> ELSE <<hits[1]>>

Larger(best, m) ==
  IF m # <<>> /\ (best = <<>> \/ m[1].Width * m[1].Height > best[1].Width * best[1].Height)
  THEN m ELSE best

Find(r) == ModeForResolution(r.W, r.H)

(* Mutant: the preferred timing is one of many.                                *)
LargestMode(e) == FoldLeft(Larger, <<>>, [i \in 1 .. Len(e.Resolutions) |-> Find(e.Resolutions[i])])

SelectMode(e) ==
  LET native == IF e.HasPreferred
                THEN ModeForResolution(e.Preferred.HActive, e.Preferred.VActive) ELSE <<>>
  IN IF native # <<>> THEN native
     ELSE FoldLeft(Larger, <<>>, [i \in 1 .. Len(e.Resolutions) |-> Find(e.Resolutions[i])])

(* Enable, index, MISC1 0, MISC0 0x20.                                         *)
DisplayFormat(index) == 16777216 + index * 65536 + 32

XDCLKkHz(bit29) == IF bit29 THEN 800000 ELSE 1000000

Abs(v) == IF v < 0 THEN -v ELSE v

(* Mutant: R is rounded down.                                                  *)
ParamDown(pixelKHz, xdclkKHz) ==
  LET half == xdclkKHz \div 2
      rr == [n \in 1 .. CrtClkRNMax |-> (pixelKHz * n) \div half]
      ns == {n \in 1 .. CrtClkRNMax : 1 <= rr[n] /\ rr[n] <= n}
      err(n) == Abs((half * rr[n]) \div n - pixelKHz)
      best == {n \in ns : \A k \in ns : err(n) <= err(k)}
  IN IF pixelKHz <= 0 \/ xdclkKHz <= 0 \/ pixelKHz > half \/ ns = {} THEN <<>>
     ELSE <<[r |-> rr[Min(best)], n |-> Min(best)]>>

(* The first N whose best R is closest.                                        *)
CRT1CLKParam(pixelKHz, xdclkKHz) ==
  LET half == xdclkKHz \div 2
      rr == [n \in 1 .. CrtClkRNMax |-> (pixelKHz * n + half \div 2) \div half]
      ns == {n \in 1 .. CrtClkRNMax : 1 <= rr[n] /\ rr[n] <= n}
      err(n) == Abs((half * rr[n]) \div n - pixelKHz)
      best == {n \in ns : \A k \in ns : err(n) <= err(k)}
  IN IF pixelKHz <= 0 \/ xdclkKHz <= 0 \/ pixelKHz > half \/ ns = {} THEN <<>>
     ELSE <<[r |-> rr[Min(best)], n |-> Min(best)]>>

-----------------------------------------------------------------------------
(* A block that encodes a display is parsed to its timings, the preferred one  *)
(* being the first, and its resolutions, each once; one with a byte changed or *)
(* missing is refused.  The mode is the preferred one when it is supported,    *)
(* else the largest that is, and it runs at 60 Hz.                             *)
BestModeIsRead(m, damage) ==
  LET b == Encode(m)
      e == Parse(b)
      ts == SelectSeq(m.slots, LAMBDA t : t # <<>>)
      ok == {x \in ToSet(modeTable) : Res(x.Width, x.Height) \in Advertised(m)}
      sel == SelectMode(e)
  IN /\ e.err = "nil" /\ e.Extensions = m.ext /\ e.ManufacturerID = <<4, 5, 12>>
     /\ e.HasPreferred = (ts # <<>>) /\ (ts # <<>> => e.Preferred = ts[1])
     /\ ToSet(e.Resolutions) = Advertised(m) /\ IsInjective(e.Resolutions)
     /\ Parse([b EXCEPT ![damage] = (@ + 1) % 256]).err \in {"header", "checksum"}
     /\ Parse(SubSeq(b, 1, damage - 1)).err = "short"
     /\ sel = <<>> <=> ok = {}
     /\ sel # <<>> =>
          /\ sel[1] \in ok
          /\ LET frame == 60 * sel[1].HTotal * sel[1].VTotal
             IN Abs(sel[1].PixelClockKHz * 1000 - frame) <= frame \div 100
          /\ IF ts # <<>> /\ \E x \in ok : x.Width = ts[1].HActive /\ x.Height = ts[1].VActive
             THEN sel[1].Width = ts[1].HActive /\ sel[1].Height = ts[1].VActive
             ELSE \A x \in ok : x.Width * x.Height <= sel[1].Width * sel[1].Height

(* There is a divider for each clock that R <= N can reach, and it is less than *)
(* 2 kHz further from the pixel clock than any other: the search compares      *)
(* whole kilohertz, of the pixel clock and of half*R/N.                        *)
ClockIsNear(pixelKHz, xdclkKHz) ==
  LET half == xdclkKHz \div 2
      p == CRT1CLKParam(pixelKHz, xdclkKHz)
      RN == {q \in (1 .. CrtClkRNMax) \X (1 .. CrtClkRNMax) : q[1] <= q[2]}
  IN /\ p = <<>> <=> pixelKHz <= 0 \/ pixelKHz > half \/ 2 * pixelKHz * CrtClkRNMax < half
     /\ p # <<>> =>
          /\ <<p[1].r, p[1].n>> \in RN
          /\ \A q \in RN : Abs(half * p[1].r - pixelKHz * p[1].n) * q[2]
                             < (Abs(half * q[1] - pixelKHz * q[2]) + 2 * q[2]) * p[1].n

(* The divider is the closest there is, as the doc of CRT1CLKParam says; for   *)
(* each N only the R on the clock's two sides can be.                          *)
ClockIsClosest(pixelKHz, xdclkKHz) ==
  LET half == xdclkKHz \div 2
      p == CRT1CLKParam(pixelKHz, xdclkKHz)
  IN p # <<>> =>
       \A n \in 1 .. CrtClkRNMax, side \in {0, 1} :
         LET r == (pixelKHz * n) \div half + side
         IN r \in 1 .. n => Abs(half * p[1].r - pixelKHz * p[1].n) * n
                             <= Abs(half * r - pixelKHz * n) * p[1].n
=============================================================================
