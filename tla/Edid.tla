-------------------------------- MODULE Edid --------------------------------
(* hal/edid: what Parse makes of an EDID base block, a sequence of 128 bytes.  *)
EXTENDS Integers, Sequences, SequencesExt

Res(w, h) == [W |-> w, H |-> h]
Hi(v) == v \div 16
Lo(v) == v % 16
Two(v, k) == (v \div 4^k) % 4       \* bits 2k+1 and 2k

(* Mutant: the upper bits of the active widths and of the blanking change places. *)
ParseSwapped(d) ==
  [PixelClockKHz |-> (d[2] * 256 + d[1]) * 10,
   HActive |-> d[3] + Lo(d[5]) * 256, HBlank |-> d[4] + Hi(d[5]) * 256,
   HFrontPorch |-> d[9] + Two(d[12], 3) * 256, HSyncWidth |-> d[10] + Two(d[12], 2) * 256,
   VActive |-> d[6] + Hi(d[8]) * 256, VBlank |-> d[7] + Lo(d[8]) * 256,
   VFrontPorch |-> Hi(d[11]) + Two(d[12], 1) * 16, VSyncWidth |-> Lo(d[11]) + Two(d[12], 0) * 16,
   Interlaced |-> d[18] >= 128]

parseDTD(d) ==
  [PixelClockKHz |-> (d[2] * 256 + d[1]) * 10,
   HActive |-> d[3] + Hi(d[5]) * 256, HBlank |-> d[4] + Lo(d[5]) * 256,
   HFrontPorch |-> d[9] + Two(d[12], 3) * 256, HSyncWidth |-> d[10] + Two(d[12], 2) * 256,
   VActive |-> d[6] + Hi(d[8]) * 256, VBlank |-> d[7] + Lo(d[8]) * 256,
   VFrontPorch |-> Hi(d[11]) + Two(d[12], 1) * 16, VSyncWidth |-> Lo(d[11]) + Two(d[12], 0) * 16,
   Interlaced |-> d[18] >= 128]

(* The height of each aspect ratio: 16:10, 4:3, 5:4, 16:9.                     *)
Aspect == << <<10, 16>>, <<3, 4>>, <<4, 5>>, <<9, 16>> >>
parseStandardTiming(b0, b1) ==
  IF (b0 = 1 /\ b1 = 1) \/ b0 = 0 THEN <<>>
  ELSE LET w == (b0 + 31) * 8
           a == Aspect[1 + Two(b1, 3)]
       IN <<Res(w, (w * a[1]) \div a[2])>>

(* The established timings of bytes 35, 36 and 37, most significant bit first. *)
Established ==
  << <<Res(720, 400), Res(720, 400), Res(640, 480), Res(640, 480),
       Res(640, 480), Res(640, 480), Res(800, 600), Res(800, 600)>>,
     <<Res(800, 600), Res(800, 600), Res(832, 624), Res(1024, 768),
       Res(1024, 768), Res(1024, 768), Res(1024, 768), Res(1280, 1024)>>,
     <<Res(1152, 870)>> >>
establishedTimings(bytes) ==
  FlattenSeq([g \in 1 .. 3 |->
    FlattenSeq([k \in 1 .. Len(Established[g]) |->
      IF (bytes[g] \div 2^(8 - k)) % 2 = 1 THEN <<Established[g][k]>> ELSE <<>>])])

(* A PNP id of three letters; a packed value that has none is kept whole.      *)
decodeManufacturer(b0, b1) ==
  LET v == b0 * 256 + b1
      c == <<(v \div 1024) % 32, (v \div 32) % 32, v % 32>>
  IN IF \A k \in 1 .. 3 : c[k] \in 1 .. 26 THEN c ELSE <<v>>

Sum(s) == FoldLeft(LAMBDA x, y : x + y, 0, s)
Checksum(b) ==      \* sixteen bytes at a time
  Sum([k \in 1 .. (Len(b) + 15) \div 16 |->
         Sum([i \in 1 .. 16 |-> IF 16 * k + i - 16 <= Len(b) THEN b[16 * k + i - 16] ELSE 0])]) % 256
edidHeader == <<0, 255, 255, 255, 255, 255, 255, 0>>
BlockSize == 128

addRes(rs, r) ==
  IF r.W <= 0 \/ r.H <= 0 \/ Contains(rs, r) THEN rs ELSE Append(rs, r)

(* Bytes are counted from 0 in the source, from 1 here.                        *)
Slot(b, i) == SubSeq(b, 55 + 18 * i, 72 + 18 * i)
Timings(b) ==
  LET dtds == SelectSeq([i \in 1 .. 4 |-> Slot(b, i - 1)],
                        LAMBDA d : ~(d[1] = 0 /\ d[2] = 0))
  IN [i \in 1 .. Len(dtds) |-> parseDTD(dtds[i])]

Parse(b) ==
  IF Len(b) < BlockSize THEN [err |-> "short"]
  ELSE IF SubSeq(b, 1, 8) # edidHeader THEN [err |-> "header"]
  ELSE IF Checksum(SubSeq(b, 1, BlockSize)) # 0 THEN [err |-> "checksum"]
  ELSE LET ts == Timings(b)
           all == [i \in 1 .. Len(ts) |-> Res(ts[i].HActive, ts[i].VActive)]
                  \o establishedTimings(SubSeq(b, 36, 38))
                  \o FlattenSeq([i \in 1 .. 8 |->
                       parseStandardTiming(b[37 + 2 * i], b[38 + 2 * i])])
       IN [err |-> "nil", ManufacturerID |-> decodeManufacturer(b[9], b[10]),
           ProductCode |-> b[11] + b[12] * 256, Extensions |-> b[127],
           HasPreferred |-> ts # <<>>, Preferred |-> IF ts = <<>> THEN <<>> ELSE ts[1],
           Resolutions |-> FoldLeft(addRes, <<>>, all)]

-----------------------------------------------------------------------------
(* The VESA encoding, the other way round.  A slot is a timing or <<>>, a      *)
(* standard timing a width and an aspect.                                      *)
EncodeDTD(t) ==
  IF t = <<>> THEN [k \in 1 .. 18 |-> IF k = 4 THEN 252 ELSE 0]
  ELSE <<(t.PixelClockKHz \div 10) % 256, t.PixelClockKHz \div 2560,
         t.HActive % 256, t.HBlank % 256, (t.HActive \div 256) * 16 + t.HBlank \div 256,
         t.VActive % 256, t.VBlank % 256, (t.VActive \div 256) * 16 + t.VBlank \div 256,
         t.HFrontPorch % 256, t.HSyncWidth % 256,
         (t.VFrontPorch % 16) * 16 + (t.VSyncWidth % 16),
         (t.HFrontPorch \div 256) * 64 + (t.HSyncWidth \div 256) * 16
           + (t.VFrontPorch \div 16) * 4 + t.VSyncWidth \div 16,
         0, 0, 0, 0, 0, IF t.Interlaced THEN 128 ELSE 0>>
EncodeStandard(s) == IF s = <<>> THEN <<1, 1>> ELSE <<s[1] \div 8 - 31, (s[2] - 1) * 64>>

Encode(m) ==
  LET body == edidHeader \o <<16, 172, 52, 18>> \o [k \in 1 .. 23 |-> 7] \o m.est
              \o FlattenSeq([i \in 1 .. 8 |-> EncodeStandard(m.std[i])])
              \o FlattenSeq([i \in 1 .. 4 |-> EncodeDTD(m.slots[i])]) \o <<m.ext>>
  IN Append(body, (256 - Checksum(body)) % 256)

(* The resolutions it advertises.                                              *)
Advertised(m) ==
  {Res(t.HActive, t.VActive) : t \in ToSet(m.slots) \ {<<>>}}
  \cup {Res(s[1], (s[1] * Aspect[s[2]][1]) \div Aspect[s[2]][2]) : s \in ToSet(m.std) \ {<<>>}}
  \cup UNION {{Established[g][k] : k \in {k \in DOMAIN Established[g] :
                                            (m.est[g] \div 2^(8 - k)) % 2 = 1}} : g \in 1 .. 3}
=============================================================================
