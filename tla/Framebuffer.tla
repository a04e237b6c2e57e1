----------------------------- MODULE Framebuffer -----------------------------
(* hal/framebuffer: what the drawing calls write, as a set of pairs of a byte  *)
(* offset into Buf and the byte stored there.                                  *)
EXTENDS Integers

Formats == {"XRGB8888", "RGB565"}
Bpp(pf) == IF pf = "RGB565" THEN 2 ELSE 4

(* A colour is its three channels.                                             *)
Pack(c, pf) ==
  IF pf = "RGB565" THEN (c.r \div 8) * 2048 + (c.g \div 4) * 32 + c.b \div 8
  ELSE c.r * 65536 + c.g * 256 + c.b

(* A Config's Stride 0 asks for rows without padding; Buf is Stride*Height.    *)
New(cfg) == [cfg EXCEPT !.Stride = IF @ = 0 THEN cfg.Width * Bpp(cfg.Format) ELSE @]
InBuf(fb, o) == 0 <= o /\ o < fb.Stride * fb.Height

(* A pixel's bytes, little endian.                                             *)
Shift == <<1, 256, 65536, 16777216>>
Put(fb, off, c) ==
  {<<off + k, (Pack(c, fb.Format) \div Shift[k + 1]) % 256>> : k \in 0 .. Bpp(fb.Format) - 1}

SetPixel(fb, x, y, c) ==
  IF x < 0 \/ y < 0 \/ x >= fb.Width \/ y >= fb.Height THEN {}
  ELSE Put(fb, y * fb.Stride + x * Bpp(fb.Format), c)

(* One axis of FillRect's clipping: where it starts and how far it goes.       *)
Start(a) == IF a < 0 THEN 0 ELSE a
(* Mutant: what lies before the screen is not taken off the extent.            *)
MoveOnly(a, n, size) == IF Start(a) + n > size THEN size - Start(a) ELSE n
Extent(a, n, size) ==
  LET m == IF a < 0 THEN n + a ELSE n
  IN IF Start(a) + m > size THEN size - Start(a) ELSE m

(* The rows from (x, y), w pixels long, h of them; off counts a row's pixels.  *)
Row(fb, x, yy, w, c) ==
  UNION {Put(fb, (yy * fb.Stride + x * Bpp(fb.Format)) + off * Bpp(fb.Format), c) :
           off \in 0 .. w - 1}
Rows(fb, x, y, w, h, c) == UNION {Row(fb, x, yy, w, c) : yy \in y .. y + h - 1}

(* On integers without bounds: a rectangle whose edge x + w or y + h is no int *)
(* is clipped otherwise in the code.                                           *)
FillRect(fb, x, y, w, h, c) ==
  Rows(fb, Start(x), Start(y), Extent(x, w, fb.Width), Extent(y, h, fb.Height), c)

Fill(fb, c) == FillRect(fb, 0, 0, fb.Width, fb.Height, c)
Low(a, b) == IF a > b THEN b ELSE a
High(a, b) == IF a > b THEN a ELSE b
HLine(fb, x0, x1, y, c) ==
  FillRect(fb, Low(x0, x1), y, High(x0, x1) - Low(x0, x1) + 1, 1, c)
VLine(fb, x, y0, y1, c) ==
  FillRect(fb, x, Low(y0, y1), 1, High(y0, y1) - Low(y0, y1) + 1, c)

(* A framebuffer whose rows hold its pixels.                                   *)
Valid(fb) ==
  /\ fb.Width \in Nat /\ fb.Height \in Nat /\ fb.Stride \in Nat /\ fb.Format \in Formats
  /\ fb.Stride >= fb.Width * Bpp(fb.Format)

PixelRow(fb, x, yy, w, c) == UNION {SetPixel(fb, xx, yy, c) : xx \in x .. x + w - 1}
Pixels(fb, x, y, w, h, c) == UNION {PixelRow(fb, x, yy, w, c) : yy \in y .. y + h - 1}

(* FillRect writes the pixels of its rectangle that are on the screen, each as *)
(* SetPixel would, and nothing else; every byte of them is inside Buf.         *)
ClipExact(fb, x, y, w, h, c) ==
  /\ FillRect(fb, x, y, w, h, c) = Pixels(fb, x, y, w, h, c)
  /\ \A b \in FillRect(fb, x, y, w, h, c) : InBuf(fb, b[1])
=============================================================================
