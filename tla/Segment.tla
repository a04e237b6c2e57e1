------------------------------ MODULE Segment ------------------------------
(* hal/spi/segment.go: the chip-enable decoding register, as its start and end *)
(* fields.  Offsets and sizes are in units of 64 KiB, the fields' resolution.  *)
EXTENDS Integers

SoCs == {"AST2600", "AST2700"}
Unit(soc) == IF soc = "AST2600" THEN 16 ELSE 1
Decoded(soc, v) == IF soc = "AST2600" THEN ((v \div 16) % 256) * 16 ELSE v % 65536
Window(soc) == IF soc = "AST2600" THEN 4096 ELSE 65536
None == [ok |-> FALSE, sf |-> 0, ef |-> 0]

SegmentDecode(soc, r) ==
  [start |-> Decoded(soc, r.sf),
   size |-> IF r.sf = r.ef THEN 0
            ELSE Decoded(soc, r.ef) - Decoded(soc, r.sf)
                 + (IF soc = "AST2600" THEN Unit(soc) ELSE 0)]

(* Mutant: the end is exclusive on both.                                       *)
EndExclusive(soc, start, size) ==
  [ok |-> TRUE, sf |-> Decoded(soc, start), ef |-> Decoded(soc, start + size)]

SegmentEncode(soc, start, size) ==
  IF start < 0 \/ size < 0 \/ start % Unit(soc) # 0 \/ size % Unit(soc) # 0 THEN None
  ELSE [ok |-> TRUE, sf |-> Decoded(soc, start),
        ef |-> Decoded(soc, IF size = 0 THEN start
                            ELSE IF soc = "AST2600" THEN start + size - 1
                            ELSE start + size)]

(* An aligned segment inside the window is decoded as it was encoded, with two *)
(* exceptions the fields cannot express: one unit of the AST2600, whose end is *)
(* its start and disables the segment, and one that ends at the AST2700's top. *)
Representable(soc, start, size) ==
  /\ start >= 0 /\ size >= 0 /\ start % Unit(soc) = 0 /\ size % Unit(soc) = 0
  /\ start < Window(soc) /\ start + size <= Window(soc)
  /\ ~(soc = "AST2600" /\ size = Unit(soc))
  /\ ~(soc = "AST2700" /\ start + size = Window(soc))

SegmentRoundTrip(soc, start, size) ==
  Representable(soc, start, size) =>
    LET r == SegmentEncode(soc, start, size)
    IN r.ok /\ SegmentDecode(soc, r) = [start |-> start, size |-> size]
=============================================================================
