---------------------------- MODULE PhyBusProofs ----------------------------
(* Proofs about the PHY's driver over the MDIO controller, for any number of  *)
(* calls, whatever the ends of the link advertise and however often the cable *)
(* moves.                                                                     *)
EXTENDS PhyBus, SequenceTheorems, TLAPS

-----------------------------------------------------------------------------
(* What each access is made of.                                               *)
Shape(o) == DOMAIN o = {"op", "reg", "arg", "bits", "clr", "then"}
Wrote(x, n, r) == Shape(x[n]) /\ x[n].op = "write" /\ x[n].reg = r /\ x[n].then = "must"
Reads(x, n, r, t) == Shape(x[n]) /\ x[n].op = "read" /\ x[n].reg = r /\ x[n].then = t

(* The seven operations of a store begin after the first n.                   *)
Storing(x, n) ==
  /\ Wrote(x, n + 1, "page") /\ x[n + 1].arg = 4 /\ Wrote(x, n + 2, "x10")
  /\ Wrote(x, n + 3, "x11") /\ Wrote(x, n + 4, "x12")
  /\ Wrote(x, n + 5, "x13") /\ Wrote(x, n + 6, "x14")
  /\ Wrote(x, n + 7, "page") /\ x[n + 7].arg = 0
  /\ x[n + 5].clr = x[n + 6].clr /\ x[n + 5].bits = x[n + 6].bits
  /\ x[n + 5].clr \subseteq All /\ x[n + 5].bits \subseteq All
At(x, n) == x[n + 3].arg * 65536 + x[n + 4].arg

Fetching(x) ==
  /\ Wrote(x, 1, "page") /\ x[1].arg = 4 /\ Wrote(x, 2, "x10")
  /\ Wrote(x, 3, "x15") /\ Wrote(x, 4, "x16") /\ x[3].arg = x[10].arg /\ x[4].arg = x[11].arg
  /\ Reads(x, 5, "x17", "keep") /\ Reads(x, 6, "x18", "join")
  /\ Wrote(x, 7, "page") /\ x[7].arg = 0

IsWrite(x) == Len(x) = 7 /\ Storing(x, 0) /\ x[5].clr = All /\ At(x, 0) \notin Readable
IsModify(x) == Len(x) = 14 /\ Fetching(x) /\ Storing(x, 7) /\ At(x, 7) \in Readable
IsPageOne(x) ==
  /\ Len(x) = 3 /\ Wrote(x, 1, "page") /\ x[1].arg = 1
  /\ Wrote(x, 2, "x14") /\ x[2].clr = All /\ x[2].bits \subseteq 0 .. 15
  /\ Wrote(x, 3, "page") /\ x[3].arg = 0
IsMmd(x) ==
  /\ Len(x) = 2 /\ Shape(x[1])
  /\ x[1].op = "addr" /\ x[1].reg = "mmd" /\ x[1].arg = 7 /\ x[1].then = "must"
  /\ \/ Reads(x, 2, "mmd", "keep")
     \/ Wrote(x, 2, "mmd") /\ x[2].bits = {3} /\ x[2].clr = All
(* Accesses of the standard registers change none that BuckExact looks at.    *)
Standard(x, n) ==
  /\ \/ x[n].op = "read" /\ x[n].reg \in {"id1", "id2", "bmcr", "bmsr", "gbcr", "gbsr",
                                          "anar", "anlpar"}
     \/ Wrote(x, n, "bmcr")
  /\ Shape(x[n]) /\ x[n].bits \subseteq All
  /\ \/ x[n].then \in {"must", "keep", "id", "reset"}
     \/ Len(x) = 6 /\ x[n].then \in {"ignore", "link", "gig", "low"}
  /\ x[n].then = "ignore" => n < Len(x) /\ x[n + 1].then = "link"
IsStandard(x) == Len(x) \in {2, 6} /\ \A n \in 1 .. Len(x) : Standard(x, n)

(* One buckWrite, buckModify and so on is of its kind.                        *)
LEMMA Halves ==
  ASSUME NEW a \in Nat
  PROVE  (a \div 65536) * 65536 + (a % 65536) = a
  OBVIOUS

(* The operations of a buckWrite: it addresses a, and stores exactly b there. *)
LEMMA WriteOps ==
  ASSUME NEW a \in Nat, NEW b, b \subseteq All
  PROVE  /\ Len(buckWrite(a, b)) = 7 /\ Storing(buckWrite(a, b), 0)
         /\ buckWrite(a, b)[5].clr = All /\ buckWrite(a, b)[5].bits = b
         /\ At(buckWrite(a, b), 0) = a
<1> DEFINE x == buckWrite(a, b)
<1>1. /\ Len(x) = 7
      /\ x[1] = Wr("page", 4, {}, All) /\ x[2] = Wr("x10", 0, {}, All)
      /\ x[3] = Wr("x11", a \div 65536, {}, All) /\ x[4] = Wr("x12", a % 65536, {}, All)
      /\ x[5] = Wr("x13", 0, b, All) /\ x[6] = Wr("x14", 0, b, All)
      /\ x[7] = Wr("page", 0, {}, All)
  BY DEF buckWrite, BuckStore
<1> HIDE DEF x
<1>2. Storing(x, 0) /\ x[5].clr = All /\ x[5].bits = b
  BY <1>1 DEF Storing, Wrote, Shape, Wr
<1>3. At(x, 0) = (a \div 65536) * 65536 + (a % 65536)
  BY <1>1 DEF At, Wr
<1> QED
  BY <1>1, <1>2, <1>3, Halves DEF x

(* The operations of a buckModify: it fetches and stores at one address, a,   *)
(* clearing m and setting s.                                                  *)
LEMMA ModifyOps ==
  ASSUME NEW a \in Nat, NEW m, m \subseteq All, NEW s, s \subseteq All
  PROVE  /\ Len(buckModify(a, m, s)) = 14 /\ Fetching(buckModify(a, m, s))
         /\ Storing(buckModify(a, m, s), 7)
         /\ buckModify(a, m, s)[12].clr = m /\ buckModify(a, m, s)[12].bits = s
         /\ At(buckModify(a, m, s), 7) = a
<1> DEFINE x == buckModify(a, m, s)
<1>1. /\ Len(x) = 14
      /\ x[1] = Wr("page", 4, {}, All) /\ x[2] = Wr("x10", 0, {}, All)
      /\ x[3] = Wr("x15", a \div 65536, {}, All) /\ x[4] = Wr("x16", a % 65536, {}, All)
      /\ x[5] = Rd("x17", "keep") /\ x[6] = Rd("x18", "join")
      /\ x[7] = Wr("page", 0, {}, All)
      /\ x[8] = Wr("page", 4, {}, All) /\ x[9] = Wr("x10", 0, {}, All)
      /\ x[10] = Wr("x11", a \div 65536, {}, All) /\ x[11] = Wr("x12", a % 65536, {}, All)
      /\ x[12] = Wr("x13", 0, s, m) /\ x[13] = Wr("x14", 0, s, m)
      /\ x[14] = Wr("page", 0, {}, All)
  BY DEF buckModify, buckRead, BuckStore
<1> HIDE DEF x
<1>2. Storing(x, 7) /\ x[12].clr = m /\ x[12].bits = s
  BY <1>1 DEF Storing, Wrote, Shape, Wr
<1>3. At(x, 7) = (a \div 65536) * 65536 + (a % 65536)
  BY <1>1 DEF At, Wr
<1>4. Fetching(x)
  BY <1>1 DEF Fetching, Wrote, Reads, Shape, Wr, Rd
<1> QED
  BY <1>1, <1>2, <1>3, <1>4, Halves DEF x

(* initAnalog's write on page one.                                            *)
LEMMA PageOneOps ==
  ASSUME NEW b, b \subseteq 0 .. 15
  PROVE  LET x == <<Wr("page", 1, {}, All), Wr("x14", 0, b, All), Wr("page", 0, {}, All)>>
         IN IsPageOne(x) /\ x[2].bits = b
  BY DEF IsPageOne, Wrote, Shape, Wr

(* The two phases of a Clause 45 access.                                      *)
LEMMA MmdOps ==
  ASSUME NEW op
  PROVE  /\ IsMmd(Mmd(op))
         /\ op = "ReadMMD" <=> Mmd(op)[2].op = "read"
<1>1. /\ Len(Mmd(op)) = 2 /\ Mmd(op)[1] = [Wr("mmd", 7, {}, All) EXCEPT !.op = "addr"]
      /\ Mmd(op)[2] = IF op = "ReadMMD" THEN Rd("mmd", "keep") ELSE Wr("mmd", 7, {3}, All)
  BY DEF Mmd
<1> QED
  BY <1>1 DEF IsMmd, Reads, Wrote, Shape, Wr, Rd

(* The accesses of the standard registers: the id, the reset, the restart of  *)
(* auto-negotiation, and WaitLink's poll.                                     *)
LEMMA StandardOps ==
  /\ IsStandard(ID) /\ IsStandard(reset) /\ IsStandard(RestartAutoNegotiation)
  /\ IsStandard(WaitLink)
  /\ Len(ID) = 2 /\ Len(reset) = 2 /\ Len(RestartAutoNegotiation) = 2 /\ Len(WaitLink) = 6
<1>1. /\ Len(ID) = 2 /\ ID[1] = Rd("id1", "keep") /\ ID[2] = Rd("id2", "id")
  BY DEF ID
<1>2. /\ Len(reset) = 2 /\ reset[1] = Wr("bmcr", 0, {15}, All) /\ reset[2] = Rd("bmcr", "reset")
  BY DEF reset
<1>3. /\ Len(RestartAutoNegotiation) = 2 /\ RestartAutoNegotiation[1] = Rd("bmcr", "keep")
      /\ RestartAutoNegotiation[2] = Wr("bmcr", 0, {12, 9}, {})
  BY DEF RestartAutoNegotiation
<1>4. /\ Len(WaitLink) = 6 /\ WaitLink[1] = Rd("bmsr", "ignore") /\ WaitLink[2] = Rd("bmsr", "link")
      /\ WaitLink[3] = Rd("gbcr", "keep") /\ WaitLink[4] = Rd("gbsr", "gig")
      /\ WaitLink[5] = Rd("anar", "keep") /\ WaitLink[6] = Rd("anlpar", "low")
  BY DEF WaitLink
<1> USE DEF IsStandard, Standard, Shape, Wrote, Rd, Wr, All
<1>5. IsStandard(ID)
  BY <1>1
<1>6. IsStandard(reset)
  BY <1>2
<1>7. IsStandard(RestartAutoNegotiation)
  BY <1>3
<1>8. IsStandard(WaitLink)
  BY <1>4
<1> QED
  BY <1>1, <1>2, <1>3, <1>4, <1>5, <1>6, <1>7, <1>8

-----------------------------------------------------------------------------
(* What an access changes: the write-only registers it sets, the bits it      *)
(* clears and sets in a register that can be read back.                       *)
Plain(x) ==
  CASE Len(x) = 7 -> {<<At(x, 0), x[5].bits>>}
    [] Len(x) = 3 -> {<<1, x[2].bits>>}
    [] Len(x) = 2 /\ x[2].op = "write" /\ x[2].reg = "mmd" -> {<<7, {3}>>}
    [] OTHER -> {}
Mask(x, a) == IF Len(x) = 14 /\ At(x, 7) = a THEN x[12].clr ELSE {}
Bits(x, a) == IF Len(x) = 14 /\ At(x, 7) = a THEN x[12].bits ELSE {}
ChangesNone(x) == \A a : Mask(x, a) = {} /\ Bits(x, a) = {}

(* A write that sets one write-only register.                                 *)
Sets(x, a, b) == IsWrite(x) /\ Plain(x) = {<<a, b>>} /\ ChangesNone(x)

(* A buckWrite to a register that cannot be read back sets that one.          *)
LEMMA WriteEffect ==
  ASSUME NEW a \in Nat, a \notin Readable, NEW b, b \subseteq All
  PROVE  Sets(buckWrite(a, b), a, b)
<1> DEFINE x == buckWrite(a, b)
<1>1. /\ Len(x) = 7 /\ Storing(x, 0) /\ x[5].clr = All /\ x[5].bits = b /\ At(x, 0) = a
  BY WriteOps
<1> HIDE DEF x
<1>2. Sets(x, a, b)
  BY <1>1 DEF Sets, Plain, ChangesNone, Mask, Bits, IsWrite
<1> QED
  BY <1>2 DEF x

(* A modification clears m and sets s in one register, and sets no other.     *)
Changes(x, a, m, s) ==
  /\ IsModify(x) /\ Plain(x) = {}
  /\ \A r : Mask(x, r) = (IF r = a THEN m ELSE {}) /\ Bits(x, r) = (IF r = a THEN s ELSE {})

(* A buckModify changes the register it names and leaves the others.          *)
LEMMA ModifyEffect ==
  ASSUME NEW a \in Readable, NEW m, m \subseteq All, NEW s, s \subseteq All
  PROVE  Changes(buckModify(a, m, s), a, m, s)
<1> DEFINE x == buckModify(a, m, s)
<1>1. a \in Nat
  BY DEF Readable, Speed, Gpio
<1>2. /\ Len(x) = 14 /\ Fetching(x) /\ Storing(x, 7) /\ x[12].clr = m /\ x[12].bits = s
      /\ At(x, 7) = a
  BY <1>1, ModifyOps
<1> HIDE DEF x
<1>3. Changes(x, a, m, s)
  BY <1>2 DEF Changes, Plain, Mask, Bits, IsModify
<1> QED
  BY <1>3 DEF x

(* An access of the standard registers leaves the analog ones alone.          *)
LEMMA StandardEffect ==
  ASSUME NEW x, IsStandard(x)
  PROVE  Plain(x) = {} /\ ChangesNone(x)
<1>1. Len(x) = 2 => x[2].reg # "mmd"
  BY DEF IsStandard, Standard, Wrote
<1>2. Len(x) \in {2, 6}
  BY Zenon DEF IsStandard
<1>3. Len(x) # 7 /\ Len(x) # 3 /\ Len(x) # 14
  BY <1>2, SMT
<1> QED
  BY <1>1, <1>3, Zenon DEF Plain, ChangesNone, Mask, Bits

(* A Clause 45 write sets its register, a read none.                          *)
LEMMA MmdEffect ==
  ASSUME NEW op
  PROVE  /\ Plain(Mmd(op)) = IF op = "ReadMMD" THEN {} ELSE {<<7, {3}>>}
         /\ ChangesNone(Mmd(op))
<1> DEFINE x == Mmd(op)
<1>1. IsMmd(x) /\ (op = "ReadMMD" <=> x[2].op = "read")
  BY MmdOps
<1> HIDE DEF x
<1>2. /\ Plain(x) = IF op = "ReadMMD" THEN {} ELSE {<<7, {3}>>}
      /\ ChangesNone(x)
  BY <1>1 DEF IsMmd, Reads, Wrote, Plain, ChangesNone, Mask, Bits
<1> QED
  BY <1>2 DEF x

(* The write on page one sets one write-only register.                        *)
LEMMA PageOneEffect ==
  ASSUME NEW x, IsPageOne(x)
  PROVE  Plain(x) = {<<1, x[2].bits>>} /\ ChangesNone(x)
  BY DEF IsPageOne, Plain, ChangesNone, Mask, Bits

-----------------------------------------------------------------------------
(* The programs.                                                              *)

(* E is the set of the accesses in the sequence s.                            *)
Has(s, E) == s \in Seq(E) /\ \A e \in E : \E k \in 1 .. Len(s) : s[k] = e

(* The accesses of two programs, one after the other, are those of both.      *)
LEMMA HasConcat ==
  ASSUME NEW s, NEW t, NEW E, NEW F, Has(s, E), Has(t, F)
  PROVE  Has(s \o t, E \cup F) /\ Len(s \o t) = Len(s) + Len(t)
<1>1. s \in Seq(E \cup F) /\ t \in Seq(E \cup F)
  BY SeqMonotonic DEF Has
<1>2. /\ s \o t \in Seq(E \cup F) /\ Len(s \o t) = Len(s) + Len(t)
      /\ \A i \in 1 .. Len(s) + Len(t) : (s \o t)[i] = IF i <= Len(s) THEN s[i] ELSE t[i - Len(s)]
  BY <1>1, ConcatProperties
<1>3. ASSUME NEW e \in E PROVE \E k \in 1 .. Len(s \o t) : (s \o t)[k] = e
  <2>1. PICK k \in 1 .. Len(s) : s[k] = e
    BY DEF Has
  <2>2. k \in 1 .. Len(s \o t) /\ (s \o t)[k] = e
    BY <1>1, <1>2, <2>1, LenProperties
  <2> QED
    BY <2>2
<1>4. ASSUME NEW e \in F PROVE \E k \in 1 .. Len(s \o t) : (s \o t)[k] = e
  <2>1. PICK k \in 1 .. Len(t) : t[k] = e
    BY DEF Has
  <2>2. /\ Len(s) + k \in 1 .. Len(s \o t) /\ ~(Len(s) + k <= Len(s))
        /\ Len(s) + k - Len(s) = k
    BY <1>1, <1>2, <2>1, LenProperties
  <2>3. (s \o t)[Len(s) + k] = e
    BY <1>2, <2>1, <2>2
  <2> QED
    BY <2>2, <2>3
<1> QED
  BY <1>2, <1>3, <1>4 DEF Has

(* The accesses of a short program.                                           *)
LEMMA HasFew ==
  /\ \A a : Has(<<a>>, {a}) /\ Len(<<a>>) = 1
  /\ \A a, b : Has(<<a, b>>, {a, b}) /\ Len(<<a, b>>) = 2
  /\ \A a, b, c : Has(<<a, b, c>>, {a, b, c}) /\ Len(<<a, b, c>>) = 3
<1>1. ASSUME NEW a PROVE Has(<<a>>, {a}) /\ Len(<<a>>) = 1
  BY DEF Has
<1>2. ASSUME NEW a, NEW b PROVE Has(<<a, b>>, {a, b}) /\ Len(<<a, b>>) = 2
  BY DEF Has
<1>3. ASSUME NEW a, NEW b, NEW c PROVE Has(<<a, b, c>>, {a, b, c}) /\ Len(<<a, b, c>>) = 3
  BY DEF Has
<1> QED
  BY <1>1, <1>2, <1>3

(* The arguments of the calls.                                                *)
Calls == [op : Ops, arg : LinkModes \cup {NoLink}]
MmdOp(c) == c.op \in {"ReadMMD", "WriteMMD"}
PageOne == <<Wr("page", 1, {}, All), Wr("x14", 0, {2, 4, 9, 11, 12, 13}, All),
             Wr("page", 0, {}, All)>>

(* The accesses of each call.                                                 *)
InitSet ==
  {ID, reset} \cup {cl45Write(31, 1536, {1, 2, 3, 4}), cl45Write(31, 1537, {1}), PageOne}
  \cup {buckWrite(Analog[i][1], Analog[i][2]) : i \in 1 .. 6}
  \cup {cl45Write(30, Mmd1e[i][1], Mmd1e[i][2]) : i \in 1 .. 4}
  \cup {cl45Write(7, 60, {})}
  \cup {buckWrite(Delays[i][1], Delays[i][2]) : i \in 1 .. 2}
  \cup {RestartAutoNegotiation}
LedSet(i) ==
  {cl45Write(31, 36 + 2 * (i - 1), OnEvents[i]), cl45Write(31, 37 + 2 * (i - 1), BlinkEvents[i]),
   buckModify(Gpio, {i}, {i}), buckModify(Gpio + 4, Select[i], Select[i]),
   buckModify(Gpio + 28, {i}, {})}
LedsSet ==
  {cl45Write(31, 35, {12}), cl45Write(31, 34, {11}), cl45Write(31, 33, {15, 3})}
  \cup LedSet(1) \cup LedSet(2) \cup LedSet(3)

(* InitRGMIIID's accesses.                                                    *)
LEMMA HasInit == Has(InitRGMIIID, InitSet)
<1> DEFINE A == {cl45Write(31, 1536, {1, 2, 3, 4}), cl45Write(31, 1537, {1}), PageOne}
           B == {buckWrite(Analog[i][1], Analog[i][2]) : i \in 1 .. 6}
           C == {cl45Write(30, Mmd1e[i][1], Mmd1e[i][2]) : i \in 1 .. 4}
           D == {buckWrite(Delays[i][1], Delays[i][2]) : i \in 1 .. 2}
<1>1. ASSUME NEW n \in Nat, NEW f, f = [i \in 1 .. n |-> f[i]]
      PROVE  Has(f, {f[i] : i \in 1 .. n})
  <2>1. f \in [1 .. n -> {f[i] : i \in 1 .. n}]
    BY <1>1
  <2>2. f \in Seq({f[i] : i \in 1 .. n}) /\ Len(f) = n
    BY <2>1
  <2> QED
    BY <2>2 DEF Has
<1>2. Has([i \in 1 .. 6 |-> buckWrite(Analog[i][1], Analog[i][2])], B)
  <2> DEFINE f == [i \in 1 .. 6 |-> buckWrite(Analog[i][1], Analog[i][2])]
  <2>1. f = [i \in 1 .. 6 |-> f[i]] /\ {f[i] : i \in 1 .. 6} = B
    OBVIOUS
  <2> HIDE DEF f, B
  <2>2. Has(f, B)
    BY <1>1, <2>1
  <2> QED
    BY <2>2 DEF f
<1>3. Has([i \in 1 .. 4 |-> cl45Write(30, Mmd1e[i][1], Mmd1e[i][2])], C)
  <2> DEFINE f == [i \in 1 .. 4 |-> cl45Write(30, Mmd1e[i][1], Mmd1e[i][2])]
  <2>1. f = [i \in 1 .. 4 |-> f[i]] /\ {f[i] : i \in 1 .. 4} = C
    OBVIOUS
  <2> HIDE DEF f, C
  <2>2. Has(f, C)
    BY <1>1, <2>1
  <2> QED
    BY <2>2 DEF f
<1>4. Has(configureDelays, D)
  <2> DEFINE f == [i \in 1 .. 2 |-> buckWrite(Delays[i][1], Delays[i][2])]
  <2>1. f = [i \in 1 .. 2 |-> f[i]] /\ {f[i] : i \in 1 .. 2} = D
    OBVIOUS
  <2> HIDE DEF f, D
  <2>2. Has(f, D)
    BY <1>1, <2>1
  <2> QED
    BY <2>2 DEF f, configureDelays
<1> HIDE DEF A, B, C, D
<1>5. Has(initAnalog, A \cup B \cup C)
  <2> DEFINE a == <<cl45Write(31, 1536, {1, 2, 3, 4}), cl45Write(31, 1537, {1}), PageOne>>
             b == [i \in 1 .. 6 |-> buckWrite(Analog[i][1], Analog[i][2])]
             c == [i \in 1 .. 4 |-> cl45Write(30, Mmd1e[i][1], Mmd1e[i][2])]
  <2>1. Has(a, A)
    BY HasFew DEF A
  <2>2. initAnalog = a \o b \o c
    BY DEF initAnalog, PageOne
  <2> HIDE DEF a, b, c
  <2>3. Has(b, B) /\ Has(c, C)
    BY <1>2, <1>3 DEF b, c
  <2>4. Has(a \o b, A \cup B)
    BY <2>1, <2>3, HasConcat
  <2>5. Has(a \o b \o c, A \cup B \cup C)
    BY <2>3, <2>4, HasConcat
  <2> QED
    BY <2>2, <2>5
<1>6. Has(<<ID, reset>>, {ID, reset}) /\ Has(<<cl45Write(7, 60, {})>>, {cl45Write(7, 60, {})})
      /\ Has(<<RestartAutoNegotiation>>, {RestartAutoNegotiation})
  BY HasFew
<1>7. Has(<<ID, reset>> \o initAnalog, {ID, reset} \cup (A \cup B \cup C))
  BY <1>5, <1>6, HasConcat
<1>8. Has(<<ID, reset>> \o initAnalog \o <<cl45Write(7, 60, {})>>,
          ({ID, reset} \cup (A \cup B \cup C)) \cup {cl45Write(7, 60, {})})
  BY <1>6, <1>7, HasConcat
<1>9. Has(<<ID, reset>> \o initAnalog \o <<cl45Write(7, 60, {})>> \o configureDelays,
          (({ID, reset} \cup (A \cup B \cup C)) \cup {cl45Write(7, 60, {})}) \cup D)
  BY <1>4, <1>8, HasConcat
<1>10. Has(InitRGMIIID,
          ((({ID, reset} \cup (A \cup B \cup C)) \cup {cl45Write(7, 60, {})}) \cup D)
           \cup {RestartAutoNegotiation})
  BY <1>6, <1>9, HasConcat DEF InitRGMIIID
<1>11. ((({ID, reset} \cup (A \cup B \cup C)) \cup {cl45Write(7, 60, {})}) \cup D)
           \cup {RestartAutoNegotiation} = InitSet
  BY DEF InitSet, A, B, C, D
<1> QED
  BY <1>10, <1>11

(* InitLEDs' accesses.                                                        *)
LEMMA HasLeds == Has(InitLEDs, LedsSet)
<1> DEFINE A == <<cl45Write(31, 35, {12}), cl45Write(31, 34, {11}), cl45Write(31, 33, {15, 3})>>
           S == {cl45Write(31, 35, {12}), cl45Write(31, 34, {11}), cl45Write(31, 33, {15, 3})}
<1>1. ASSUME NEW i \in 1 .. 3 PROVE Has(Led[i], LedSet(i))
  <2>1. ASSUME NEW a, NEW b, NEW c, NEW d, NEW e
        PROVE  Has(<<a, b, c, d, e>>, {a, b, c, d, e})
    BY DEF Has
  <2> QED
    BY <2>1 DEF Led, LedSet
<1>2. Has(A, S)
  BY HasFew
<1> HIDE DEF A, S
<1>3. Has(A \o Led[1], S \cup LedSet(1))
  BY <1>1, <1>2, HasConcat
<1>4. Has(A \o Led[1] \o Led[2], S \cup LedSet(1) \cup LedSet(2))
  BY <1>1, <1>3, HasConcat
<1>5. Has(A \o Led[1] \o Led[2] \o Led[3], S \cup LedSet(1) \cup LedSet(2) \cup LedSet(3))
  BY <1>1, <1>4, HasConcat
<1> QED
  BY <1>5, Zenon DEF InitLEDs, LedsSet, A, S

(* The addresses that are only written, and the values of the tables.         *)
LEMMA Cl45Only ==
  ASSUME NEW d \in Nat, NEW r \in Nat, NEW b, b \subseteq All
  PROVE  Sets(cl45Write(d, r, b), Cl45(d, r), b)
<1>1. Cl45(d, r) \in Nat /\ Cl45(d, r) > 290000000
  BY SMT DEF Cl45
<1>2. Cl45(d, r) \notin Readable
  BY <1>1 DEF Readable, Speed, Gpio
<1> QED
  BY <1>1, <1>2, WriteEffect DEF cl45Write

(* What the tables of initAnalog, configureDelays and InitLEDs hold:          *)
(* registers that cannot be read back, and values of at most 32 bits.         *)
LEMMA TableValues ==
  /\ \A i \in 1 .. 6 : /\ Analog[i] = <<Analog[i][1], Analog[i][2]>> /\ Analog[i][1] \in Nat
                       /\ Analog[i][1] \notin Readable /\ Analog[i][2] \subseteq All
  /\ \A i \in 1 .. 2 : /\ Delays[i] = <<Delays[i][1], Delays[i][2]>> /\ Delays[i][1] \in Nat
                       /\ Delays[i][1] \notin Readable /\ Delays[i][2] \subseteq All
  /\ \A i \in 1 .. 4 : Mmd1e[i][1] \in Nat /\ Mmd1e[i][2] \subseteq All
  /\ \A i \in 1 .. 3 : OnEvents[i] \subseteq All /\ BlinkEvents[i] \subseteq All
                       /\ Select[i] \subseteq All
<1>1. ASSUME NEW i \in 1 .. 6
      PROVE  /\ Analog[i] = <<Analog[i][1], Analog[i][2]>> /\ Analog[i][1] \in Nat
             /\ Analog[i][1] \notin Readable /\ Analog[i][2] \subseteq All
  <2>1. i = 1 \/ i = 2 \/ i = 3 \/ i = 4 \/ i = 5 \/ i = 6
    OBVIOUS
  <2> QED
    BY <2>1 DEF Analog, Readable, Speed, Gpio, All
<1>2. ASSUME NEW i \in 1 .. 2
      PROVE  /\ Delays[i] = <<Delays[i][1], Delays[i][2]>> /\ Delays[i][1] \in Nat
             /\ Delays[i][1] \notin Readable /\ Delays[i][2] \subseteq All
  <2>1. i = 1 \/ i = 2
    OBVIOUS
  <2> QED
    BY <2>1 DEF Delays, Readable, Speed, Gpio, All
<1>3. ASSUME NEW i \in 1 .. 4 PROVE Mmd1e[i][1] \in Nat /\ Mmd1e[i][2] \subseteq All
  <2>1. i = 1 \/ i = 2 \/ i = 3 \/ i = 4
    OBVIOUS
  <2> QED
    BY <2>1 DEF Mmd1e, All
<1>4. ASSUME NEW i \in 1 .. 3
      PROVE  OnEvents[i] \subseteq All /\ BlinkEvents[i] \subseteq All /\ Select[i] \subseteq All
  <2>1. i = 1 \/ i = 2 \/ i = 3
    OBVIOUS
  <2> QED
    BY <2>1 DEF OnEvents, BlinkEvents, Select, All
<1> QED
  BY <1>1, <1>2, <1>3, <1>4

(* InitRGMIIID sets write-only registers, a standard one on page 1 among them. *)
LEMMA InitEffects ==
  ASSUME NEW c \in Calls, c.op = "InitRGMIIID"
  PROVE  /\ \A x \in InitSet : /\ IsWrite(x) \/ IsPageOne(x) \/ (IsStandard(x) /\ Len(x) = 2)
                               /\ ChangesNone(x)
         /\ UNION {Plain(x) : x \in InitSet} = WriteOnly(c)
<1>1. ASSUME NEW i \in 1 .. 6
      PROVE  Sets(buckWrite(Analog[i][1], Analog[i][2]), Analog[i][1], Analog[i][2])
  BY TableValues, WriteEffect
<1>2. ASSUME NEW i \in 1 .. 2
      PROVE  Sets(buckWrite(Delays[i][1], Delays[i][2]), Delays[i][1], Delays[i][2])
  BY TableValues, WriteEffect
<1>3. ASSUME NEW i \in 1 .. 4
      PROVE  Sets(cl45Write(30, Mmd1e[i][1], Mmd1e[i][2]), Cl45(30, Mmd1e[i][1]), Mmd1e[i][2])
  BY TableValues, Cl45Only
<1>4. /\ Sets(cl45Write(31, 1536, {1, 2, 3, 4}), Cl45(31, 1536), {1, 2, 3, 4})
      /\ Sets(cl45Write(31, 1537, {1}), Cl45(31, 1537), {1})
      /\ Sets(cl45Write(7, 60, {}), Cl45(7, 60), {})
  <2>1. {1, 2, 3, 4} \subseteq All /\ {1} \subseteq All /\ {} \subseteq All
    BY DEF All
  <2> QED
    BY <2>1, Cl45Only
<1>5. IsPageOne(PageOne) /\ Plain(PageOne) = {<<1, {2, 4, 9, 11, 12, 13}>>} /\ ChangesNone(PageOne)
  <2>1. {2, 4, 9, 11, 12, 13} \subseteq 0 .. 15
    OBVIOUS
  <2>2. IsPageOne(PageOne) /\ PageOne[2].bits = {2, 4, 9, 11, 12, 13}
    BY <2>1, PageOneOps DEF PageOne
  <2> QED
    BY <2>2, PageOneEffect
<1>6. ASSUME NEW x \in {ID, reset, RestartAutoNegotiation}
      PROVE  IsStandard(x) /\ Len(x) = 2 /\ Plain(x) = {} /\ ChangesNone(x)
  BY StandardOps, StandardEffect
<1>7. ASSUME NEW x \in InitSet
      PROVE  /\ IsWrite(x) \/ IsPageOne(x) \/ (IsStandard(x) /\ Len(x) = 2)
             /\ ChangesNone(x)
  BY <1>1, <1>2, <1>3, <1>4, <1>5, <1>6 DEF InitSet, Sets
<1>8. WriteOnly(c) =
        {<<Analog[i][1], Analog[i][2]>> : i \in 1 .. 6}
        \cup {<<Delays[i][1], Delays[i][2]>> : i \in 1 .. 2}
        \cup {<<Cl45(30, Mmd1e[i][1]), Mmd1e[i][2]>> : i \in 1 .. 4}
        \cup {<<Cl45(31, 1536), {1, 2, 3, 4}>>, <<Cl45(31, 1537), {1}>>, <<Cl45(7, 60), {}>>,
              <<1, {2, 4, 9, 11, 12, 13}>>}
  <2>1. /\ {Analog[i] : i \in 1 .. 6} = {<<Analog[i][1], Analog[i][2]>> : i \in 1 .. 6}
        /\ {Delays[i] : i \in 1 .. 2} = {<<Delays[i][1], Delays[i][2]>> : i \in 1 .. 2}
    BY TableValues
  <2>2. 1 .. 4 = {1, 2, 3, 4}
    OBVIOUS
  <2> QED
    BY <2>1, <2>2 DEF WriteOnly
<1>9. ASSUME NEW w \in WriteOnly(c) PROVE \E x \in InitSet : w \in Plain(x)
  BY <1>1, <1>2, <1>3, <1>4, <1>5, <1>8 DEF InitSet, Sets
<1>10. ASSUME NEW x \in InitSet PROVE Plain(x) \subseteq WriteOnly(c)
  BY <1>1, <1>2, <1>3, <1>4, <1>5, <1>6, <1>8 DEF InitSet, Sets
<1> QED
  BY <1>7, <1>9, <1>10

(* InitLEDs sets write-only registers, and bits of three others.  For each of *)
(* these its accesses only set bits, or only clear them.                      *)
LEMMA LedEffects ==
  ASSUME NEW c \in Calls, c.op = "InitLEDs"
  PROVE  /\ \A x \in LedsSet : (IsWrite(x) /\ ChangesNone(x)) \/ IsModify(x)
         /\ UNION {Plain(x) : x \in LedsSet} = WriteOnly(c)
         /\ \A a \in Readable : \A v :
              (v \ UNION {Mask(x, a) : x \in LedsSet}) \cup UNION {Bits(x, a) : x \in LedsSet}
                = CASE a = Gpio -> v \cup {1, 2, 3} [] a = Gpio + 4 -> v \cup {6, 10}
                    [] a = Gpio + 28 -> v \ {1, 2, 3} [] OTHER -> v
         /\ \A x, y \in LedsSet : \A a : Bits(x, a) \cap Mask(y, a) \subseteq Bits(y, a)
<1>1. ASSUME NEW i \in 1 .. 3
      PROVE  /\ Sets(cl45Write(31, 36 + 2 * (i - 1), OnEvents[i]), Cl45(31, 36 + 2 * (i - 1)),
                      OnEvents[i])
             /\ Sets(cl45Write(31, 37 + 2 * (i - 1), BlinkEvents[i]), Cl45(31, 37 + 2 * (i - 1)),
                      BlinkEvents[i])
  <2>1. 36 + 2 * (i - 1) \in Nat /\ 37 + 2 * (i - 1) \in Nat
    OBVIOUS
  <2> QED
    BY <2>1, TableValues, Cl45Only
<1>2. /\ Sets(cl45Write(31, 35, {12}), Cl45(31, 35), {12})
      /\ Sets(cl45Write(31, 34, {11}), Cl45(31, 34), {11})
      /\ Sets(cl45Write(31, 33, {15, 3}), Cl45(31, 33), {15, 3})
  <2>1. {12} \subseteq All /\ {11} \subseteq All /\ {15, 3} \subseteq All
    BY DEF All
  <2> QED
    BY <2>1, Cl45Only
<1>3. ASSUME NEW i \in 1 .. 3
      PROVE  /\ Changes(buckModify(Gpio, {i}, {i}), Gpio, {i}, {i})
             /\ Changes(buckModify(Gpio + 4, Select[i], Select[i]), Gpio + 4, Select[i], Select[i])
             /\ Changes(buckModify(Gpio + 28, {i}, {}), Gpio + 28, {i}, {})
  <2>1. /\ Gpio \in Readable /\ Gpio + 4 \in Readable /\ Gpio + 28 \in Readable
        /\ {i} \subseteq All /\ {} \subseteq All
    BY DEF Readable, All
  <2> QED
    BY <2>1, TableValues, ModifyEffect
<1> DEFINE Known(x) ==
             \/ \E a, b : Sets(x, a, b) /\ <<a, b>> \in WriteOnly(c)
             \/ \E i \in 1 .. 3 : \/ Changes(x, Gpio, {i}, {i})
                                  \/ Changes(x, Gpio + 4, Select[i], Select[i])
                                  \/ Changes(x, Gpio + 28, {i}, {})
<1>4. ASSUME NEW x \in LedsSet PROVE Known(x)
  <2>1. ASSUME NEW i \in 1 .. 3, x \in LedSet(i)
        PROVE  \/ x \in {buckModify(Gpio, {i}, {i}), buckModify(Gpio + 4, Select[i], Select[i]),
                         buckModify(Gpio + 28, {i}, {})}
               \/ \E a, b : Sets(x, a, b) /\ <<a, b>> \in WriteOnly(c)
    <3>1. /\ <<Cl45(31, 36 + 2 * (i - 1)), OnEvents[i]>> \in WriteOnly(c)
          /\ <<Cl45(31, 37 + 2 * (i - 1)), BlinkEvents[i]>> \in WriteOnly(c)
      <4>1. i - 1 \in 0 .. 2 /\ i - 1 + 1 = i
        OBVIOUS
      <4> QED
        BY <4>1 DEF WriteOnly
    <3> QED
      BY <1>1, <2>1, <3>1 DEF LedSet
  <2>2. CASE x \in {cl45Write(31, 35, {12}), cl45Write(31, 34, {11}), cl45Write(31, 33, {15, 3})}
    <3>1. /\ <<Cl45(31, 35), {12}>> \in WriteOnly(c) /\ <<Cl45(31, 34), {11}>> \in WriteOnly(c)
          /\ <<Cl45(31, 33), {15, 3}>> \in WriteOnly(c)
      <4>1. {15, 3} = {3, 15}
        OBVIOUS
      <4> QED
        BY <4>1 DEF WriteOnly
    <3> QED
      BY <1>2, <2>2, <3>1
  <2>3. \/ x \in {cl45Write(31, 35, {12}), cl45Write(31, 34, {11}), cl45Write(31, 33, {15, 3})}
        \/ \E i \in 1 .. 3 : x \in LedSet(i)
    BY 1 \in 1 .. 3, 2 \in 1 .. 3, 3 \in 1 .. 3, Zenon DEF LedsSet
  <2>4. ASSUME NEW i \in 1 .. 3, x \in LedSet(i) PROVE Known(x)
    BY <1>3, <2>1, <2>4
  <2> HIDE DEF Known
  <2> QED
    BY <2>2, <2>3, <2>4
<1>5. ASSUME NEW x \in LedsSet
      PROVE  ((IsWrite(x) /\ ChangesNone(x)) \/ IsModify(x)) /\ Plain(x) \subseteq WriteOnly(c)
  <2>1. ASSUME NEW a, NEW b, Sets(x, a, b), <<a, b>> \in WriteOnly(c)
        PROVE  IsWrite(x) /\ ChangesNone(x) /\ Plain(x) \subseteq WriteOnly(c)
    BY <2>1 DEF Sets
  <2>2. ASSUME NEW a, NEW m, NEW s, Changes(x, a, m, s)
        PROVE  IsModify(x) /\ Plain(x) \subseteq WriteOnly(c)
    BY <2>2 DEF Changes
  <2> QED
    BY <1>4, <2>1, <2>2, Zenon
<1>6. ASSUME NEW w \in WriteOnly(c) PROVE \E x \in LedsSet : w \in Plain(x)
  <2>1. WriteOnly(c) =
          {<<Cl45(31, 33), {3, 15}>>, <<Cl45(31, 34), {11}>>, <<Cl45(31, 35), {12}>>}
          \cup {<<Cl45(31, 36 + 2 * i), OnEvents[i + 1]>> : i \in 0 .. 2}
          \cup {<<Cl45(31, 37 + 2 * i), BlinkEvents[i + 1]>> : i \in 0 .. 2}
    BY DEF WriteOnly
  <2>2. CASE w \in {<<Cl45(31, 33), {3, 15}>>, <<Cl45(31, 34), {11}>>, <<Cl45(31, 35), {12}>>}
    <3>1. {15, 3} = {3, 15}
      OBVIOUS
    <3> QED
      BY <1>2, <2>2, <3>1 DEF LedsSet, Sets
  <2>3. ASSUME NEW i \in 0 .. 2,
               w \in {<<Cl45(31, 36 + 2 * i), OnEvents[i + 1]>>,
                      <<Cl45(31, 37 + 2 * i), BlinkEvents[i + 1]>>}
        PROVE  \E x \in LedsSet : w \in Plain(x)
    <3>1. i + 1 \in 1 .. 3 /\ i + 1 - 1 = i
      OBVIOUS
    <3>2. \E x \in LedSet(i + 1) : w \in Plain(x)
      BY <1>1, <2>3, <3>1 DEF LedSet, Sets
    <3>3. LedSet(i + 1) \subseteq LedsSet
      <4>1. i + 1 = 1 \/ i + 1 = 2 \/ i + 1 = 3
        BY <3>1
      <4> QED
        BY <4>1, Zenon DEF LedsSet
    <3> QED
      BY <3>2, <3>3
  <2> QED
    BY <2>1, <2>2, <2>3
<1> DEFINE Cut(a) == IF a \in {Gpio, Gpio + 28} THEN {1, 2, 3}
                     ELSE IF a = Gpio + 4 THEN {6, 10} ELSE {}
           Put(a) == IF a = Gpio + 28 THEN {} ELSE Cut(a)
           Fine(x, a) == /\ Mask(x, a) \subseteq Cut(a) /\ Bits(x, a) \subseteq Put(a)
                         /\ Mask(x, a) = Bits(x, a) \/ a = Gpio + 28
<1>7. ASSUME NEW x \in LedsSet, NEW a PROVE Fine(x, a)
  <2>1. \A i \in 1 .. 3 : Select[i] \subseteq {6, 10} /\ i \in {1, 2, 3}
    BY DEF Select
  <2>2. Gpio # Gpio + 4 /\ Gpio # Gpio + 28 /\ Gpio + 4 # Gpio + 28
    BY DEF Gpio
  <2>3. CASE ChangesNone(x)
    BY <2>3 DEF ChangesNone
  <2>4. ASSUME NEW i \in 1 .. 3, Changes(x, Gpio, {i}, {i}) PROVE Fine(x, a)
    BY <2>1, <2>2, <2>4 DEF Changes
  <2>5. ASSUME NEW i \in 1 .. 3, Changes(x, Gpio + 4, Select[i], Select[i]) PROVE Fine(x, a)
    BY <2>1, <2>2, <2>5 DEF Changes
  <2>6. ASSUME NEW i \in 1 .. 3, Changes(x, Gpio + 28, {i}, {}) PROVE Fine(x, a)
    BY <2>1, <2>2, <2>6 DEF Changes
  <2> QED
    BY <1>4, <2>3, <2>4, <2>5, <2>6 DEF Sets
<1>8. ASSUME NEW a \in Readable
      PROVE  /\ UNION {Mask(x, a) : x \in LedsSet} = Cut(a)
             /\ UNION {Bits(x, a) : x \in LedsSet} = Put(a)
  <2>1. ASSUME NEW b \in Cut(a)
        PROVE  \E x \in LedsSet : b \in Mask(x, a) /\ (b \in Put(a) => b \in Bits(x, a))
    <3>1. ASSUME NEW i \in 1 .. 3
          PROVE  {buckModify(Gpio, {i}, {i}), buckModify(Gpio + 4, Select[i], Select[i]),
                  buckModify(Gpio + 28, {i}, {})} \subseteq LedsSet
      <4>1. i = 1 \/ i = 2 \/ i = 3
        OBVIOUS
      <4> QED
        BY <4>1, Zenon DEF LedsSet, LedSet
    <3>2. CASE a \in {Gpio, Gpio + 28}
      <4>1. b \in 1 .. 3
        BY <3>2
      <4> QED
        BY <1>3, <3>1, <3>2, <4>1 DEF Changes
    <3>3. CASE a = Gpio + 4
      <4>1. /\ 2 \in 1 .. 3 /\ 3 \in 1 .. 3 /\ Select[2] = {6} /\ Select[3] = {10}
            /\ b \in {6, 10}
        BY <3>3 DEF Select, Gpio
      <4> QED
        BY <1>3, <3>1, <3>3, <4>1 DEF Changes
    <3> QED
      BY <3>2, <3>3
  <2> QED
    BY <1>7, <2>1
<1> QED
  <2>1. UNION {Plain(x) : x \in LedsSet} = WriteOnly(c)
    BY <1>5, <1>6
  <2>2. ASSUME NEW x \in LedsSet, NEW y \in LedsSet, NEW a
        PROVE  Bits(x, a) \cap Mask(y, a) \subseteq Bits(y, a)
    BY <1>7
  <2>3. ASSUME NEW a \in Readable, NEW v
        PROVE  (v \ Cut(a)) \cup Put(a)
                = CASE a = Gpio -> v \cup {1, 2, 3} [] a = Gpio + 4 -> v \cup {6, 10}
                    [] a = Gpio + 28 -> v \ {1, 2, 3} [] OTHER -> v
    BY DEF Gpio
  <2> QED
    BY <1>5, <1>8, <2>1, <2>2, <2>3

-----------------------------------------------------------------------------
(* What BuckExact asks of a call's program: its accesses are of five kinds,   *)
(* together they set what the call is for, and none undoes another.           *)
Kind(x, c) ==
  \/ IsWrite(x) \/ IsModify(x) \/ IsPageOne(x)
  \/ IsStandard(x) /\ ~MmdOp(c)
  \/ IsMmd(x) /\ MmdOp(c) /\ (c.op = "ReadMMD" <=> x[2].op = "read")

GoodProgram(P, c) ==
  /\ Len(P) \in Nat /\ Len(P) > 0
  /\ \A k \in 1 .. Len(P) : /\ Kind(P[k], c)
                            /\ Len(P[k]) = 6 => Len(P) = 1
                            /\ c.op # "WaitLink" => Len(P[k]) # 6
  /\ UNION {Plain(P[k]) : k \in 1 .. Len(P)} = WriteOnly(c)
  /\ \A k, l \in 1 .. Len(P) : \A a : Bits(P[k], a) \cap Mask(P[l], a) \subseteq Bits(P[l], a)
  /\ \A a \in Readable :
       (buck0[a] \ UNION {Mask(P[k], a) : k \in 1 .. Len(P)})
         \cup UNION {Bits(P[k], a) : k \in 1 .. Len(P)} = ReadBack(c, a)

(* A program with one access.                                                 *)
LEMMA GoodSingle ==
  ASSUME NEW c \in Calls, NEW x, Kind(x, c), Plain(x) = WriteOnly(c),
         \A a \in Readable : (buck0[a] \ Mask(x, a)) \cup Bits(x, a) = ReadBack(c, a),
         c.op # "WaitLink" => Len(x) # 6
  PROVE  GoodProgram(<<x>>, c)
<1>1. Len(<<x>>) = 1 /\ <<x>>[1] = x /\ 1 .. 1 = {1}
  OBVIOUS
<1>2. /\ UNION {Plain(<<x>>[k]) : k \in 1 .. 1} = Plain(x)
      /\ \A a : UNION {Mask(<<x>>[k], a) : k \in 1 .. 1} = Mask(x, a)
      /\ \A a : UNION {Bits(<<x>>[k], a) : k \in 1 .. 1} = Bits(x, a)
  BY <1>1
<1> QED
  BY <1>1, <1>2 DEF GoodProgram

(* A program whose accesses are the elements of a set.                        *)
LEMMA GoodSequence ==
  ASSUME NEW c \in Calls, NEW P, NEW E, Has(P, E), E # {}, c.op # "WaitLink",
         \A x \in E : Kind(x, c) /\ Len(x) # 6,
         UNION {Plain(x) : x \in E} = WriteOnly(c),
         \A x, y \in E : \A a : Bits(x, a) \cap Mask(y, a) \subseteq Bits(y, a),
         \A a \in Readable :
           (buck0[a] \ UNION {Mask(x, a) : x \in E}) \cup UNION {Bits(x, a) : x \in E}
             = ReadBack(c, a)
  PROVE  GoodProgram(P, c)
<1>1. P \in Seq(E) /\ Len(P) \in Nat /\ \A k \in 1 .. Len(P) : P[k] \in E
  BY LenProperties, ElementOfSeq DEF Has
<1>2. Len(P) > 0
  <2>1. PICK e \in E : TRUE
    OBVIOUS
  <2>2. PICK k \in 1 .. Len(P) : P[k] = e
    BY DEF Has
  <2> QED
    BY <1>1, <2>2
<1>3. /\ UNION {Plain(P[k]) : k \in 1 .. Len(P)} = UNION {Plain(x) : x \in E}
      /\ \A a : UNION {Mask(P[k], a) : k \in 1 .. Len(P)} = UNION {Mask(x, a) : x \in E}
      /\ \A a : UNION {Bits(P[k], a) : k \in 1 .. Len(P)} = UNION {Bits(x, a) : x \in E}
  <2>1. \A e \in E : \E k \in 1 .. Len(P) : P[k] = e
    BY DEF Has
  <2>2. UNION {Plain(P[k]) : k \in 1 .. Len(P)} = UNION {Plain(x) : x \in E}
    <3>1. ASSUME NEW v
          PROVE  (\E k \in 1 .. Len(P) : v \in Plain(P[k])) <=> \E x \in E : v \in Plain(x)
      BY <1>1, <2>1
    <3> QED
      BY <3>1
  <2>3. ASSUME NEW a
        PROVE  UNION {Mask(P[k], a) : k \in 1 .. Len(P)} = UNION {Mask(x, a) : x \in E}
    <3>1. ASSUME NEW v
          PROVE  (\E k \in 1 .. Len(P) : v \in Mask(P[k], a)) <=> \E x \in E : v \in Mask(x, a)
      BY <1>1, <2>1
    <3> QED
      BY <3>1
  <2>4. ASSUME NEW a
        PROVE  UNION {Bits(P[k], a) : k \in 1 .. Len(P)} = UNION {Bits(x, a) : x \in E}
    <3>1. ASSUME NEW v
          PROVE  (\E k \in 1 .. Len(P) : v \in Bits(P[k], a)) <=> \E x \in E : v \in Bits(x, a)
      BY <1>1, <2>1
    <3> QED
      BY <3>1
  <2> QED
    BY <2>2, <2>3, <2>4
<1> QED
  BY <1>1, <1>2, <1>3 DEF GoodProgram

(* Every call's program is good: its accesses are of the five kinds, and      *)
(* together they set and change what WriteOnly and ReadBack say of the call.  *)
LEMMA GoodPrograms ==
  ASSUME NEW c \in Calls
  PROVE  /\ GoodProgram(Program(c), c)
         /\ c.op = "WaitLink" => Program(c) = <<WaitLink>>
<1>1. c.op \in Ops
  BY DEF Calls
<1>2. CASE c.op \in {"ID", "RestartAutoNegotiation", "WaitLink"}
  <2>1. /\ WriteOnly(c) = {} /\ \A a \in Readable : ReadBack(c, a) = buck0[a]
        /\ ~MmdOp(c)
    BY <1>2 DEF WriteOnly, ReadBack, MmdOp
  <2>2. ASSUME NEW x \in {ID, RestartAutoNegotiation, WaitLink}, Len(x) = 6 => c.op = "WaitLink"
        PROVE  GoodProgram(<<x>>, c)
    <3>1. IsStandard(x)
      BY StandardOps
    <3>2. Plain(x) = {} /\ ChangesNone(x)
      BY <3>1, StandardEffect
    <3> QED
      BY <2>1, <2>2, <3>1, <3>2, GoodSingle DEF Kind, ChangesNone
  <2>3. Program(c) = CASE c.op = "ID" -> <<ID>> [] c.op = "WaitLink" -> <<WaitLink>>
                       [] OTHER -> <<RestartAutoNegotiation>>
    BY <1>2 DEF Program
  <2> QED
    BY <1>2, <2>2, <2>3, StandardOps
<1>3. CASE c.op = "ApplyLinkSpeed"
  <2> DEFINE s == IF c.arg.speed = 1000 THEN {0} ELSE {}
  <2>1. Changes(buckModify(Speed, {0}, s), Speed, {0}, s)
    <3>1. Speed \in Readable /\ {0} \subseteq All /\ s \subseteq All
      BY DEF Readable, All
    <3> QED
      BY <3>1, ModifyEffect
  <2>2. Program(c) = <<buckModify(Speed, {0}, s)>>
    BY <1>3 DEF Program
  <2>3. WriteOnly(c) = {}
    BY <1>3 DEF WriteOnly
  <2>4. \A a \in Readable : ReadBack(c, a) = IF a = Speed THEN (buck0[a] \ {0}) \cup s ELSE buck0[a]
    BY <1>3 DEF ReadBack
  <2> HIDE DEF s
  <2>5. Len(buckModify(Speed, {0}, s)) # 6
    BY <2>1 DEF Changes, IsModify
  <2> DEFINE x == buckModify(Speed, {0}, s)
  <2> HIDE DEF x
  <2>6. Plain(x) = WriteOnly(c) /\ Kind(x, c) /\ Len(x) # 6
    BY <2>1, <2>3, <2>5 DEF Changes, Kind, x
  <2>7. ASSUME NEW a \in Readable
        PROVE  (buck0[a] \ Mask(x, a)) \cup Bits(x, a) = ReadBack(c, a)
    BY <2>1, <2>4 DEF Changes, x
  <2>8. GoodProgram(<<x>>, c)
    BY <2>6, <2>7, GoodSingle
  <2> QED
    BY <1>3, <2>2, <2>8 DEF x
<1>4. CASE MmdOp(c)
  <2>1. Program(c) = <<Mmd(c.op)>>
    BY <1>4 DEF Program, MmdOp
  <2>2. \A a \in Readable : ReadBack(c, a) = buck0[a]
    BY <1>4 DEF ReadBack, MmdOp
  <2>3. WriteOnly(c) = IF c.op = "ReadMMD" THEN {} ELSE {<<7, {3}>>}
    BY <1>4 DEF WriteOnly, MmdOp
  <2>4. Kind(Mmd(c.op), c) /\ Len(Mmd(c.op)) # 6
    BY <1>4, MmdOps DEF IsMmd, Kind
  <2> DEFINE x == Mmd(c.op)
  <2>5. Plain(x) = WriteOnly(c) /\ ChangesNone(x)
    BY <2>3, MmdEffect
  <2> HIDE DEF x
  <2>6. \A a \in Readable : (buck0[a] \ Mask(x, a)) \cup Bits(x, a) = ReadBack(c, a)
    BY <2>2, <2>5 DEF ChangesNone
  <2>7. GoodProgram(<<x>>, c)
    BY <2>4, <2>5, <2>6, GoodSingle DEF x
  <2> QED
    BY <1>4, <2>1, <2>7 DEF x, MmdOp
<1>5. CASE c.op = "InitRGMIIID"
  <2>1. Program(c) = InitRGMIIID /\ ~MmdOp(c)
    BY <1>5 DEF Program, MmdOp
  <2>2. \A a \in Readable : ReadBack(c, a) = buck0[a]
    BY <1>5 DEF ReadBack
  <2>3. \A x \in InitSet : Kind(x, c) /\ Len(x) # 6
    BY <1>5, <2>1, InitEffects DEF Kind, IsWrite, IsPageOne
  <2>4. \A a : /\ UNION {Mask(x, a) : x \in InitSet} = {} /\ UNION {Bits(x, a) : x \in InitSet} = {}
    BY <1>5, InitEffects DEF ChangesNone
  <2>5. \A x, y \in InitSet : \A a : Bits(x, a) \cap Mask(y, a) \subseteq Bits(y, a)
    BY <1>5, InitEffects DEF ChangesNone
  <2>6. InitSet # {}
    BY DEF InitSet
  <2>7. UNION {Plain(x) : x \in InitSet} = WriteOnly(c)
    BY <1>5, InitEffects
  <2> QED
    BY <1>5, <2>1, <2>2, <2>3, <2>4, <2>5, <2>6, <2>7, HasInit, GoodSequence
<1>6. CASE c.op = "InitLEDs"
  <2>1. Program(c) = InitLEDs /\ ~MmdOp(c)
    BY <1>6 DEF Program, MmdOp
  <2>2. \A a \in Readable :
          ReadBack(c, a) = CASE a = Gpio -> buck0[a] \cup {1, 2, 3}
                             [] a = Gpio + 4 -> buck0[a] \cup {6, 10}
                             [] a = Gpio + 28 -> buck0[a] \ {1, 2, 3} [] OTHER -> buck0[a]
    BY <1>6 DEF ReadBack, Gpio
  <2>3. \A x \in LedsSet : Kind(x, c) /\ Len(x) # 6
    <3>1. \A x \in LedsSet : IsWrite(x) \/ IsModify(x)
      BY <1>6, LedEffects
    <3>2. \A x : IsWrite(x) \/ IsModify(x) => Len(x) # 6
      BY DEF IsWrite, IsModify
    <3> QED
      BY <3>1, <3>2, Zenon DEF Kind
  <2>4. LedsSet # {}
    BY DEF LedsSet
  <2>5. /\ UNION {Plain(x) : x \in LedsSet} = WriteOnly(c)
        /\ \A x, y \in LedsSet : \A a : Bits(x, a) \cap Mask(y, a) \subseteq Bits(y, a)
    BY <1>6, LedEffects
  <2>6. \A a \in Readable :
           (buck0[a] \ UNION {Mask(x, a) : x \in LedsSet}) \cup UNION {Bits(x, a) : x \in LedsSet}
             = ReadBack(c, a)
    BY <1>6, <2>2, LedEffects
  <2> QED
    BY <1>6, <2>1, <2>3, <2>4, <2>5, <2>6, HasLeds, GoodSequence
<1> QED
  BY <1>1, <1>2, <1>3, <1>4, <1>5, <1>6 DEF Ops, MmdOp

-----------------------------------------------------------------------------
(* Types.                                                                     *)
Running == st # "return"
X == Prog[access]
Thens == {"must", "keep", "join", "id", "reset", "ignore", "link", "gig", "low"}
Errors == {"timeout", "badid", "nolink"}

CallTypes ==
  /\ phyCall \in Calls \/ (phyCall.op = "none" /\ phyErr = "none")
  /\ st \in {"issue", "poll", "data", "return"}
  /\ Running => access \in 1 .. Len(Prog) /\ ip \in 1 .. Len(X)
  /\ Running <=> phyErr = "busy"
  /\ phyErr \in {"none", "busy", "nil"} \cup Errors
  /\ link \in LinkModes \cup {NoLink}
  /\ phyCalls \in 0 .. MaxPhyCalls /\ flaps \in 0 .. MaxFlaps
WireTypes == own \subseteq LinkModes /\ partner \subseteq LinkModes
(* An operation the controller may hold.                                      *)
IsOp(o) ==
  /\ Shape(o) /\ o.op \in {"read", "write", "addr"}
  /\ o.op = "addr" => o.reg = "mmd"
  /\ o.op = "write" => o.reg \in {"page", "x10", "x11", "x12", "x13", "x14", "x15", "x16",
                                  "mmd", "bmcr"}
  /\ o.reg = "page" => o.arg \in {0, 1, 4}
  /\ o.op = "write" /\ o.reg \in {"x13", "x14", "mmd", "bmcr"} => o.bits \subseteq All
BusTypes ==
  /\ acc \subseteq All /\ data \subseteq All /\ bmcr \subseteq All
  /\ IsOp(cur) /\ fire \in BOOLEAN /\ idle \in BOOLEAN
PhyRegs ==
  /\ page \in {0, 1, 4} /\ buck \in [Readable -> SUBSET All]
  /\ DOMAIN latch = {"x11", "x12", "x13", "x15", "x16", "mmd"} /\ latch["x13"] \subseteq All
PhyTypes == CallTypes /\ WireTypes /\ BusTypes /\ PhyRegs

(* What every access's operations have in common.                             *)
LEMMA OpFacts ==
  ASSUME NEW x, NEW c, Kind(x, c), NEW n \in 1 .. Len(x)
  PROVE  /\ IsOp(x[n]) /\ x[n].then \in Thens
         /\ x[n].then \in {"gig", "low", "link", "ignore"} => Len(x) = 6
         /\ x[n].then \in {"ignore", "reset", "link", "keep", "join", "gig", "low"} =>
              x[n].op = "read"
<1> USE DEF Thens, IsOp
<1>1. CASE IsWrite(x)
  <2>1. n \in {1, 2, 3, 4, 5, 6, 7}
    BY <1>1 DEF IsWrite
  <2> QED
    BY <1>1, <2>1 DEF IsWrite, Storing, Wrote
<1>2. CASE IsModify(x)
  <2>1. n \in {1, 2, 3, 4, 5, 6, 7} \/ n \in {8, 9, 10, 11, 12, 13, 14}
    BY <1>2 DEF IsModify
  <2>2. CASE n \in {1, 2, 3, 4, 5, 6, 7}
    BY <1>2, <2>2 DEF IsModify, Fetching, Wrote, Reads
  <2>3. CASE n \in {8, 9, 10, 11, 12, 13, 14}
    BY <1>2, <2>3 DEF IsModify, Storing, Wrote
  <2> QED
    BY <2>1, <2>2, <2>3
<1>3. CASE IsPageOne(x)
  <2>1. n \in {1, 2, 3}
    BY <1>3 DEF IsPageOne
  <2>2. x[2].bits \subseteq All
    BY <1>3 DEF IsPageOne, All
  <2> QED
    BY <1>3, <2>1, <2>2 DEF IsPageOne, Wrote
<1>4. CASE IsStandard(x)
  BY <1>4 DEF IsStandard, Standard, Wrote
<1>5. CASE IsMmd(x)
  <2>1. n \in {1, 2} /\ {3} \subseteq All
    BY <1>5 DEF IsMmd, All
  <2> QED
    BY <1>5, <2>1 DEF IsMmd, Reads, Wrote
<1> QED
  BY <1>1, <1>2, <1>3, <1>4, <1>5 DEF Kind

(* The operation in progress is one of an access of the call's program.       *)
LEMMA Current ==
  ASSUME CallTypes, Running
  PROVE  /\ phyCall \in Calls /\ GoodProgram(Prog, phyCall) /\ Kind(X, phyCall)
         /\ Tr = X[ip] /\ ip \in 1 .. Len(X) /\ access \in 1 .. Len(Prog)
         /\ phyErr = "busy"
<1>1. phyCall \in Calls /\ access \in 1 .. Len(Prog) /\ ip \in 1 .. Len(X) /\ phyErr = "busy"
  BY DEF CallTypes
<1>2. GoodProgram(Prog, phyCall)
  BY <1>1, GoodPrograms DEF Prog
<1> QED
  BY <1>1, <1>2 DEF GoodProgram, X, Tr

(* The modes of negotiatedLink, first to last.                                *)
LEMMA LeastIs ==
  ASSUME NEW S, S \subseteq Int, NEW m \in S, \A y \in S : m <= y
  PROVE  Min(S) = m
<1>1. \E x \in S : \A y \in S : x <= y
  OBVIOUS
<1>2. Min(S) \in S /\ \A y \in S : Min(S) <= y
  BY <1>1 DEF Min
<1>3. Min(S) <= m /\ m <= Min(S) /\ Min(S) \in Int /\ m \in Int
  BY <1>2
<1> QED
  BY <1>3

(* FirstOf picks the least position whose mode is common.                     *)
LEMMA FirstIs ==
  ASSUME NEW modes, NEW S, NEW n \in Nat, DOMAIN modes = 1 .. n
  PROVE  /\ \A m \in 1 .. n : modes[m] \in S /\ (\A i \in 1 .. n : i < m => modes[i] \notin S)
                             => FirstOf(modes, S) = modes[m]
         /\ (\A i \in 1 .. n : modes[i] \notin S) => FirstOf(modes, S) = NoLink
<1> DEFINE hits == {i \in DOMAIN modes : modes[i] \in S}
<1>1. FirstOf(modes, S) = IF hits = {} THEN NoLink ELSE modes[Min(hits)]
  BY DEF FirstOf
<1>2. ASSUME NEW m \in 1 .. n, modes[m] \in S, \A i \in 1 .. n : i < m => modes[i] \notin S
      PROVE  FirstOf(modes, S) = modes[m]
  <2>1. hits \subseteq Int /\ m \in hits /\ \A y \in hits : m <= y
    BY <1>2
  <2>2. Min(hits) = m
    BY <2>1, LeastIs
  <2> QED
    BY <1>1, <2>1, <2>2
<1>3. (\A i \in 1 .. n : modes[i] \notin S) => FirstOf(modes, S) = NoLink
  BY <1>1
<1> QED
  BY <1>2, <1>3

(* The modes by name: F for full duplex, H for half.                          *)
F1000 == M(1000, TRUE)
H1000 == M(1000, FALSE)
F100 == M(100, TRUE)
H100 == M(100, FALSE)
F10 == M(10, TRUE)
H10 == M(10, FALSE)

(* The gigabit mode found.                                                    *)
LEMMA FirstGig ==
  ASSUME NEW S
  PROVE  /\ FirstOf(GigOrder, S) = IF F1000 \in S THEN F1000
                                   ELSE IF H1000 \in S THEN H1000 ELSE NoLink
         /\ FirstOf(GigOrder, S) \in {GigOrder[1], GigOrder[2], NoLink}
<1> DEFINE o == GigOrder
<1>1. DOMAIN o = 1 .. 2 /\ o[1] = F1000 /\ o[2] = H1000
  BY DEF GigOrder, F1000, H1000
<1> HIDE DEF o
<1>2. /\ o[1] \in S => FirstOf(o, S) = o[1]
      /\ o[1] \notin S /\ o[2] \in S => FirstOf(o, S) = o[2]
      /\ o[1] \notin S /\ o[2] \notin S => FirstOf(o, S) = NoLink
  <2>1. 2 \in Nat /\ {1, 2} = 1 .. 2
    OBVIOUS
  <2>2. /\ \A m \in 1 .. 2 : o[m] \in S /\ (\A i \in 1 .. 2 : i < m => o[i] \notin S)
                            => FirstOf(o, S) = o[m]
        /\ (\A i \in 1 .. 2 : o[i] \notin S) => FirstOf(o, S) = NoLink
    <3>1. DOMAIN o = 1 .. 2
      BY <1>1
    <3> QED
      BY <2>1, <3>1, FirstIs
  <2>3. /\ 1 \in 1 .. 2 /\ 2 \in 1 .. 2 /\ \A i \in 1 .. 2 : i = 1 \/ i = 2
        /\ ~(1 < 1) /\ ~(2 < 1) /\ ~(2 < 2)
    OBVIOUS
  <2>4. o[1] \in S => FirstOf(o, S) = o[1]
    BY <2>2, <2>3, Zenon
  <2>5. o[1] \notin S /\ o[2] \in S => FirstOf(o, S) = o[2]
    BY <2>2, <2>3, Zenon
  <2>6. o[1] \notin S /\ o[2] \notin S => FirstOf(o, S) = NoLink
    BY <2>2, <2>3, Zenon
  <2> QED
    BY <2>4, <2>5, <2>6
<1>3. FirstOf(o, S) = IF o[1] \in S THEN o[1] ELSE IF o[2] \in S THEN o[2] ELSE NoLink
  BY <1>2, Zenon
<1>4. FirstOf(o, S) = IF F1000 \in S THEN F1000
                      ELSE IF H1000 \in S THEN H1000 ELSE NoLink
  BY <1>1, <1>3
<1>5. FirstOf(o, S) \in {o[1], o[2], NoLink}
  BY <1>3
<1> QED
  BY <1>4, <1>5 DEF o

(* The slower mode found.                                                     *)
LEMMA FirstLow ==
  ASSUME NEW S
  PROVE  FirstOf(LowOrder, S) = IF F100 \in S THEN F100
                                ELSE IF H100 \in S THEN H100
                                ELSE IF F10 \in S THEN F10
                                ELSE IF H10 \in S THEN H10 ELSE NoLink
<1> DEFINE o == LowOrder
<1>1. /\ DOMAIN o = 1 .. 4
      /\ o[1] = F100 /\ o[2] = H100
      /\ o[3] = F10 /\ o[4] = H10
  BY DEF LowOrder, F100, H100, F10, H10
<1> HIDE DEF o
<1>2. /\ o[1] \in S => FirstOf(o, S) = o[1]
      /\ o[1] \notin S /\ o[2] \in S => FirstOf(o, S) = o[2]
      /\ o[1] \notin S /\ o[2] \notin S /\ o[3] \in S => FirstOf(o, S) = o[3]
      /\ o[1] \notin S /\ o[2] \notin S /\ o[3] \notin S /\ o[4] \in S => FirstOf(o, S) = o[4]
      /\ o[1] \notin S /\ o[2] \notin S /\ o[3] \notin S /\ o[4] \notin S
           => FirstOf(o, S) = NoLink
  <2>1. 4 \in Nat /\ {1, 2, 3, 4} = 1 .. 4
    OBVIOUS
  <2>2. /\ \A m \in 1 .. 4 : o[m] \in S /\ (\A i \in 1 .. 4 : i < m => o[i] \notin S)
                            => FirstOf(o, S) = o[m]
        /\ (\A i \in 1 .. 4 : o[i] \notin S) => FirstOf(o, S) = NoLink
    BY <1>1, <2>1, FirstIs
  <2>3. \A i, m \in {1, 2, 3, 4} : i < m <=> \/ i = 1 /\ m \in {2, 3, 4}
                                             \/ i = 2 /\ m \in {3, 4}
                                             \/ i = 3 /\ m = 4
    OBVIOUS
  <2> QED
    BY <2>1, <2>2, <2>3
<1> QED
  BY <1>1, <1>2, Zenon DEF o

-----------------------------------------------------------------------------
(* What an operation's outcome does to the call.                              *)
NextOp == ip < Len(X) /\ ip' = ip + 1 /\ st' = "issue" /\ UNCHANGED <<access, phyErr>>
NextAccess ==
  /\ ip = Len(X) /\ access < Len(Prog)
  /\ access' = access + 1 /\ ip' = 1 /\ st' = "issue" /\ UNCHANGED phyErr
LastDone == ip = Len(X) /\ access = Len(Prog) /\ Return("nil")

(* Advance goes to the next operation, the next access, or returns nil.       *)
LEMMA AdvanceCases ==
  ASSUME CallTypes, Running, Advance
  PROVE  NextOp \/ NextAccess \/ LastDone
<1>1. access \in 1 .. Len(Prog) /\ ip \in 1 .. Len(X) /\ Len(Prog) \in Nat
  BY Current DEF GoodProgram
<1>2. Len(X) \in Nat
  BY Current DEF Kind, IsWrite, IsModify, IsPageOne, IsStandard, IsMmd
<1>3. CASE ip < Len(X)
  BY <1>3 DEF Advance, NextOp, X
<1>4. CASE ~(ip < Len(X)) /\ access < Len(Prog)
  <2>1. ip = Len(X)
    BY <1>1, <1>2, <1>4
  <2> QED
    BY <1>4, <2>1 DEF Advance, NextAccess, X
<1>5. CASE ~(ip < Len(X)) /\ ~(access < Len(Prog))
  <2>1. ip = Len(X) /\ access = Len(Prog)
    BY <1>1, <1>2, <1>5
  <2> QED
    BY <1>5, <2>1 DEF Advance, LastDone, X
<1> QED
  BY <1>3, <1>4, <1>5

(* negotiatedLink's modes are modes.                                          *)
LEMMA FirstTypes ==
  ASSUME NEW S
  PROVE  /\ FirstOf(GigOrder, S) \in LinkModes \cup {NoLink}
         /\ FirstOf(LowOrder, S) \in LinkModes \cup {NoLink}
<1> DEFINE T == LinkModes \cup {NoLink}
<1>1. /\ F1000 \in T /\ H1000 \in T /\ F100 \in T
      /\ H100 \in T /\ F10 \in T /\ H10 \in T /\ NoLink \in T
  BY DEF M, LinkModes, F1000, H1000, F100, H100, F10, H10
<1> HIDE DEF T
<1>2. FirstOf(GigOrder, S) \in T
  <2>1. GigOrder[1] \in T /\ GigOrder[2] \in T /\ NoLink \in T
    BY DEF GigOrder, M, LinkModes, T
  <2>2. FirstOf(GigOrder, S) \in {GigOrder[1], GigOrder[2], NoLink}
    BY FirstGig
  <2> QED
    BY <2>1, <2>2
<1>3. FirstOf(LowOrder, S) \in T
  <2>1. FirstOf(LowOrder, S) = IF F100 \in S THEN F100
                               ELSE IF H100 \in S THEN H100
                               ELSE IF F10 \in S THEN F10
                               ELSE IF H10 \in S THEN H10 ELSE NoLink
    BY FirstLow
  <2> QED
    BY <1>1, <2>1
<1> QED
  BY <1>2, <1>3 DEF T

(* An outcome ends the call with an error, repeats a poll, goes on, or is the *)
(* link found; only a read that is kept changes what the call has read.       *)
Read(v) ==
  CASE Tr.then = "keep" -> v [] Tr.then = "join" -> acc \cup v [] OTHER -> acc
Follows(ok, v) ==
  /\ \/ \E e \in Errors : Return(e) /\ acc' = acc
     \/ Again /\ acc' = acc /\ Tr.then \in {"reset", "link"}
     \/ Advance /\ (ok \/ Tr.then = "ignore") /\ acc' = Read(v)
     \/ ok /\ Tr.then \in {"gig", "low"} /\ Return("nil") /\ acc' = acc
  /\ \/ link' = link
     \/ ok /\ Tr.then = "gig" /\ Gig(v)
     \/ ok /\ Tr.then = "low" /\ LowSpeed(v)

(* What a call does with an outcome is one of these.                          *)
LEMMA OutcomeCases ==
  ASSUME CallTypes, Running, NEW STATE ok, ok \in BOOLEAN, NEW STATE v, Outcome(ok, v)
  PROVE  Follows(ok, v)
<1>1. Tr.then \in Thens
  BY Current, OpFacts
<1> USE DEF Errors, Read, Keep, Follows
<1>2. CASE Tr.then = "ignore"
  BY <1>2 DEF Outcome
<1>3. CASE Tr.then = "reset"
  BY <1>3 DEF Outcome
<1>4. CASE ~ok /\ Tr.then \notin {"ignore", "reset"}
  BY <1>4 DEF Outcome
<1>5. CASE ok /\ Tr.then = "must"
  BY <1>5 DEF Outcome
<1>6. CASE ok /\ Tr.then = "keep"
  BY <1>6 DEF Outcome
<1>7. CASE ok /\ Tr.then = "join"
  BY <1>7 DEF Outcome
<1>8. CASE ok /\ Tr.then = "id"
  BY <1>8 DEF Outcome
<1>9. CASE ok /\ Tr.then = "link"
  BY <1>9 DEF Outcome
<1>10. CASE ok /\ Tr.then = "gig"
  <2>1. Gig(v)
    BY <1>10 DEF Outcome
  <2> QED
    BY <1>10, <2>1 DEF Gig
<1>11. CASE ok /\ Tr.then = "low"
  <2>1. LowSpeed(v)
    BY <1>11 DEF Outcome
  <2>2. \E e \in {"nolink", "nil"} : Return(e) /\ acc' = acc
    BY <2>1 DEF LowSpeed
  <2> QED
    BY <1>11, <2>1, <2>2
<1> QED
  BY <1>1, <1>2, <1>3, <1>4, <1>5, <1>6, <1>7, <1>8, <1>9, <1>10, <1>11 DEF Thens

-----------------------------------------------------------------------------
(* The types hold.                                                            *)
LEMMA KindLen ==
  ASSUME NEW x, NEW c, Kind(x, c)
  PROVE  Len(x) \in {2, 3, 6, 7, 14} /\ 1 \in 1 .. Len(x)
  BY DEF Kind, IsWrite, IsModify, IsPageOne, IsStandard, IsMmd

(* What the PHY answers has bits 0 to 31.                                     *)
LEMMA ReadTypes ==
  ASSUME WireTypes, PhyRegs, bmcr \subseteq All, NEW reg
  PROVE  ReadOf(reg) \subseteq All
<1>1. ASSUME NEW m \in LinkModes
      PROVE  GigBit(m) \in {8, 9} /\ LowBit(m) \in {5, 6, 7, 8}
  BY DEF GigBit, LowBit, LinkModes
<1>2. GBCR \subseteq All /\ GBSR \subseteq All /\ ANAR \subseteq All /\ ANLPAR \subseteq All
  <2>1. ASSUME NEW m \in LinkModes
        PROVE  GigBit(m) \in All /\ GigBit(m) + 2 \in All /\ LowBit(m) \in All
    BY <1>1 DEF All
  <2>2. own \subseteq LinkModes /\ partner \subseteq LinkModes
    BY DEF WireTypes
  <2>3. GBCR \subseteq All
    BY <2>1, <2>2 DEF GBCR
  <2>4. GBSR \subseteq All
    BY <2>1, <2>2 DEF GBSR
  <2>5. ANAR \subseteq All
    BY <2>1, <2>2 DEF ANAR
  <2>6. ANLPAR \subseteq All
    BY <2>1, <2>2 DEF ANLPAR
  <2> QED
    BY <2>3, <2>4, <2>5, <2>6
<1>3. ASSUME NEW hi, NEW lo PROVE BuckAt(hi, lo) \subseteq All
  <2>1. CASE hi * 65536 + lo \in Readable
    BY <2>1 DEF BuckAt, PhyRegs
  <2>2. CASE hi * 65536 + lo \notin Readable
    BY <2>2 DEF BuckAt
  <2> QED
    BY <2>1, <2>2
<1>4. PHYID \subseteq All /\ {5} \subseteq All /\ {2, 5} \subseteq All
  BY DEF PHYID, All
<1>5. \A v : v \subseteq All => High(v) \subseteq All /\ Low(v) \subseteq All
  BY DEF High, Low
<1>6. /\ High(PHYID) \subseteq All /\ Low(PHYID) \subseteq All
      /\ High(BuckAt(latch["x15"], latch["x16"])) \subseteq All
      /\ Low(BuckAt(latch["x15"], latch["x16"])) \subseteq All
  BY <1>3, <1>4, <1>5
<1>7. CASE reg \in {"id1", "id2", "bmcr", "bmsr"}
  BY <1>4, <1>6, <1>7 DEF ReadOf
<1>8. CASE reg \in {"gbcr", "gbsr", "anar", "anlpar"}
  BY <1>2, <1>8 DEF ReadOf
<1>9. CASE reg \in {"x17", "x18"}
  BY <1>6, <1>9 DEF ReadOf
<1>10. CASE reg \notin {"id1", "id2", "bmcr", "bmsr", "gbcr", "gbsr", "anar", "anlpar",
                         "x17", "x18"}
  BY <1>10 DEF ReadOf
<1> QED
  BY <1>7, <1>8, <1>9, <1>10

(* What a write does, by its register.                                        *)
Latched ==
  /\ latch' = [latch EXCEPT ![cur.reg] = IF cur.reg = "x13" THEN cur.bits ELSE cur.arg]
  /\ UNCHANGED <<page, buck, bmcr, commits>>

(* A write goes to the page select, a standard register, a latch, or the      *)
(* register that the latches name.                                            *)
LEMMA StoreCases ==
  ASSUME IsOp(cur), cur.op # "read", page \in {0, 1, 4}, Store(cur)
  PROVE  /\ cur.reg = "page" => page' = cur.arg /\ UNCHANGED <<latch, buck, bmcr, commits>>
         /\ cur.reg = "bmcr" => bmcr' = cur.bits \ {9} /\ UNCHANGED <<page, latch, buck, commits>>
         /\ cur.op = "addr" => /\ latch' = [latch EXCEPT !["mmd"] = cur.arg]
                               /\ UNCHANGED <<page, buck, bmcr, commits>>
         /\ cur.op = "write" /\ cur.reg = "mmd" =>
              Commit(latch["mmd"], cur.bits) /\ UNCHANGED <<page, latch, bmcr>>
         /\ cur.reg \in {"x11", "x12", "x13", "x15", "x16"} /\ page = 4 => Latched
         /\ cur.reg = "x14" /\ page = 4 =>
              /\ Commit(latch["x11"] * 65536 + latch["x12"], latch["x13"] \cup cur.bits)
              /\ UNCHANGED <<page, latch, bmcr>>
         /\ cur.reg \in {"x11", "x12", "x13", "x14", "x15", "x16"} /\ page # 4 =>
              Commit(page, cur.bits) /\ UNCHANGED <<page, latch, bmcr>>
         /\ cur.reg = "x10" => UNCHANGED <<phy, commits>>
<1>1. ASSUME cur.reg = "page" PROVE page' = cur.arg /\ UNCHANGED <<latch, buck, bmcr, commits>>
  <2>1. cur.op = "write"
    BY <1>1 DEF IsOp
  <2> QED
    BY <1>1, <2>1, SMT DEF Store
<1>2. ASSUME cur.reg = "bmcr"
      PROVE  bmcr' = cur.bits \ {9} /\ UNCHANGED <<page, latch, buck, commits>>
  <2>1. cur.op = "write"
    BY <1>2 DEF IsOp
  <2> QED
    BY <1>2, <2>1, SMT DEF Store
<1>3. ASSUME cur.op = "addr"
      PROVE  /\ latch' = [latch EXCEPT !["mmd"] = cur.arg]
             /\ UNCHANGED <<page, buck, bmcr, commits>>
  <2>1. cur.reg = "mmd"
    BY <1>3 DEF IsOp
  <2> QED
    BY <1>3, <2>1, SMT DEF Store
<1>4. ASSUME cur.op = "write", cur.reg = "mmd"
      PROVE  Commit(latch["mmd"], cur.bits) /\ UNCHANGED <<page, latch, bmcr>>
  BY <1>4, SMT DEF Store
<1>5. ASSUME cur.reg \in {"x11", "x12", "x13", "x15", "x16"}, page = 4
      PROVE  Latched
  <2>1. cur.op = "write"
    BY <1>5 DEF IsOp
  <2>2. CASE cur.reg = "x11"
    BY <1>5, <2>1, <2>2, SMT DEF Store, Latched
  <2>3. CASE cur.reg = "x12"
    BY <1>5, <2>1, <2>3, SMT DEF Store, Latched
  <2>4. CASE cur.reg = "x13"
    BY <1>5, <2>1, <2>4, SMT DEF Store, Latched
  <2>5. CASE cur.reg = "x15"
    BY <1>5, <2>1, <2>5, SMT DEF Store, Latched
  <2>6. CASE cur.reg = "x16"
    BY <1>5, <2>1, <2>6, SMT DEF Store, Latched
  <2> QED
    BY <1>5, <2>2, <2>3, <2>4, <2>5, <2>6
<1>6. ASSUME cur.reg = "x14", page = 4
      PROVE  /\ Commit(latch["x11"] * 65536 + latch["x12"], latch["x13"] \cup cur.bits)
             /\ UNCHANGED <<page, latch, bmcr>>
  <2>1. cur.op = "write"
    BY <1>6 DEF IsOp
  <2> QED
    BY <1>6, <2>1, SMT DEF Store
<1>7. ASSUME cur.reg \in {"x11", "x12", "x13", "x14", "x15", "x16"}, page # 4
      PROVE  Commit(page, cur.bits) /\ UNCHANGED <<page, latch, bmcr>>
  <2>1. cur.op = "write"
    BY <1>7 DEF IsOp
  <2>2. CASE cur.reg = "x11"
    BY <1>7, <2>1, <2>2, SMT DEF Store
  <2>3. CASE cur.reg = "x12"
    BY <1>7, <2>1, <2>3, SMT DEF Store
  <2>4. CASE cur.reg = "x13"
    BY <1>7, <2>1, <2>4, SMT DEF Store
  <2>5. CASE cur.reg = "x14"
    BY <1>7, <2>1, <2>5, SMT DEF Store
  <2>6. CASE cur.reg = "x15"
    BY <1>7, <2>1, <2>6, SMT DEF Store
  <2>7. CASE cur.reg = "x16"
    BY <1>7, <2>1, <2>7, SMT DEF Store
  <2> QED
    BY <1>7, <2>2, <2>3, <2>4, <2>5, <2>6, <2>7
<1>8. ASSUME cur.reg = "x10" PROVE UNCHANGED <<phy, commits>>
  <2>1. cur.op = "write"
    BY <1>8 DEF IsOp
  <2> QED
    BY <1>8, <2>1, SMT DEF Store
<1> QED
  BY <1>1, <1>2, <1>3, <1>4, <1>5, <1>6, <1>7, <1>8

(* A register only holds bits 0 to 31.                                        *)
LEMMA StoreTypes ==
  ASSUME BusTypes, PhyRegs, cur.op # "read", Store(cur)
  PROVE  PhyRegs' /\ bmcr' \subseteq All
<1> USE DEF PhyRegs
<1>1. IsOp(cur) /\ page \in {0, 1, 4} /\ page \notin Readable /\ bmcr \subseteq All
  BY DEF BusTypes, Readable, Speed, Gpio
<1>2. ASSUME NEW STATE a, NEW STATE v, v \subseteq All \/ a \notin Readable, Commit(a, v)
      PROVE  buck' \in [Readable -> SUBSET All]
  <2>1. CASE a \in Readable
    BY <1>2, <2>1 DEF Commit
  <2>2. CASE a \notin Readable
    BY <1>2, <2>2 DEF Commit
  <2> QED
    BY <2>1, <2>2
<1>3. CASE cur.reg = "page"
  <2>1. page' = cur.arg /\ UNCHANGED <<latch, buck, bmcr, commits>>
    BY <1>1, <1>3, StoreCases
  <2> QED
    BY <1>1, <1>3, <2>1 DEF IsOp
<1>4. CASE cur.reg = "bmcr"
  <2>1. bmcr' = cur.bits \ {9} /\ UNCHANGED <<page, latch, buck, commits>>
    BY <1>1, <1>4, StoreCases
  <2> QED
    BY <1>1, <1>4, <2>1 DEF IsOp
<1>5. CASE cur.op = "addr"
  <2>1. latch' = [latch EXCEPT !["mmd"] = cur.arg] /\ UNCHANGED <<page, buck, bmcr, commits>>
    BY <1>1, <1>5, StoreCases
  <2>2. DOMAIN latch' = DOMAIN latch /\ latch'["x13"] = latch["x13"]
    BY <2>1
  <2> QED
    BY <1>1, <2>1, <2>2
<1>6. CASE cur.op = "write" /\ cur.reg = "mmd"
  <2>1. Commit(latch["mmd"], cur.bits) /\ UNCHANGED <<page, latch, bmcr>>
    BY <1>1, <1>6, StoreCases
  <2>2. cur.bits \subseteq All
    BY <1>1, <1>6 DEF IsOp
  <2> QED
    BY <1>1, <1>2, <2>1, <2>2
<1>7. CASE cur.reg \in {"x11", "x12", "x13", "x15", "x16"} /\ page = 4
  <2>1. Latched
    BY <1>1, <1>7, StoreCases
  <2>2. cur.reg = "x13" => cur.bits \subseteq All
    BY <1>1, <1>7 DEF IsOp
  <2>3. DOMAIN latch' = DOMAIN latch /\ latch'["x13"] \subseteq All
    BY <2>1, <2>2 DEF Latched
  <2> QED
    BY <1>1, <2>1, <2>3 DEF Latched
<1>8. CASE cur.reg = "x14" /\ page = 4
  <2>1. /\ Commit(latch["x11"] * 65536 + latch["x12"], latch["x13"] \cup cur.bits)
        /\ UNCHANGED <<page, latch, bmcr>>
    BY <1>1, <1>8, StoreCases
  <2>2. latch["x13"] \cup cur.bits \subseteq All
    BY <1>1, <1>8 DEF IsOp
  <2>3. buck' \in [Readable -> SUBSET All]
    BY <1>2, <2>1, <2>2
  <2> QED
    BY <1>1, <2>1, <2>3
<1>9. CASE cur.reg \in {"x11", "x12", "x13", "x14", "x15", "x16"} /\ page # 4
  <2>1. Commit(page, cur.bits) /\ UNCHANGED <<page, latch, bmcr>>
    BY <1>1, <1>9, StoreCases
  <2> QED
    BY <1>1, <1>2, <2>1
<1>10. CASE cur.reg = "x10"
  <2>1. UNCHANGED <<phy, commits>>
    BY <1>1, <1>10, StoreCases
  <2> QED
    BY <1>1, <2>1 DEF phy
<1> QED
  BY <1>1, <1>3, <1>4, <1>5, <1>6, <1>7, <1>8, <1>9, <1>10 DEF IsOp

(* An operation's outcome leaves the types as they are.                       *)
LEMMA OutcomeTypes ==
  ASSUME PhyTypes, Running, NEW STATE ok, NEW STATE v, v \subseteq All, Follows(ok, v),
         UNCHANGED <<phyCall, phyCalls, ctl, phy, wire, hist>>
  PROVE  PhyTypes'
<1> USE DEF PhyTypes
<1>1. /\ phyCall \in Calls /\ ip \in 1 .. Len(X) /\ access \in 1 .. Len(Prog) /\ phyErr = "busy"
      /\ GoodProgram(Prog, phyCall)
  BY Current
<1>2. Prog' = Prog
  BY DEF Prog
<1>3. acc' \subseteq All
  BY DEF Follows, Read, BusTypes
<1>4. link' \in LinkModes \cup {NoLink}
  <2>1. link \in LinkModes \cup {NoLink}
    BY DEF CallTypes
  <2>2. Gig(v) => link' \in LinkModes \cup {NoLink}
    <3>1. Gig(v) => \E S : link' = FirstOf(GigOrder, S)
      BY DEF Gig
    <3> QED
      BY <3>1, FirstTypes
  <2>3. LowSpeed(v) => link' \in LinkModes \cup {NoLink}
    <3>1. LowSpeed(v) => \E S : link' = FirstOf(LowOrder, S)
      BY DEF LowSpeed
    <3> QED
      BY <3>1, FirstTypes
  <2> QED
    BY <2>1, <2>2, <2>3 DEF Follows
<1>5. CallTypes'
  <2>1. /\ phyCall' \in Calls /\ phyCalls' \in 0 .. MaxPhyCalls /\ flaps' \in 0 .. MaxFlaps
    BY <1>1 DEF CallTypes, wire
  <2> DEFINE Goes == /\ st' \in {"issue", "poll", "data"} /\ phyErr' = "busy"
                     /\ access' \in 1 .. Len(Prog) /\ ip' \in 1 .. Len(Prog[access'])
             Stops == st' = "return" /\ phyErr' \in {"nil", "timeout", "badid", "nolink"}
  <2>2. CASE Goes
    <3>1. Running' /\ X' = Prog[access']
      BY <1>2, <2>2 DEF Running, X
    <3> QED
      BY <1>2, <1>4, <2>1, <2>2, <3>1 DEF CallTypes
  <2>3. CASE Stops
    BY <1>4, <2>1, <2>3 DEF CallTypes, Running, Errors
  <2>4. Again => Goes
    <3>1. ip \in 1 .. Len(Prog[access])
      BY <1>1 DEF X
    <3> QED
      BY <1>1, <3>1 DEF Again
  <2>5. ASSUME NEW e \in {"nil", "timeout", "badid", "nolink"}, Return(e) PROVE Stops
    BY <2>5 DEF Return
  <2>6. NextOp => Goes
    <3>1. Len(X) \in Nat /\ X = Prog[access]
      BY <1>1, KindLen DEF X, GoodProgram
    <3>2. NextOp => ip + 1 \in 1 .. Len(Prog[access])
      BY <1>1, <3>1 DEF NextOp
    <3> QED
      BY <1>1, <3>2 DEF NextOp
  <2>7. NextAccess => Goes
    <3>1. NextAccess => access + 1 \in 1 .. Len(Prog)
      BY <1>1 DEF NextAccess, GoodProgram
    <3>2. \A k \in 1 .. Len(Prog) : 1 \in 1 .. Len(Prog[k])
      BY <1>1, KindLen DEF GoodProgram
    <3>3. NextAccess => ip' = 1 /\ access' = access + 1 /\ st' = "issue" /\ phyErr' = "busy"
      BY <1>1 DEF NextAccess
    <3> QED
      BY <3>1, <3>2, <3>3
  <2> HIDE DEF Goes, Stops
  <2>8. Advance => Goes \/ Stops
    BY <2>5, <2>6, <2>7, AdvanceCases DEF LastDone
  <2> QED
    BY <2>2, <2>3, <2>4, <2>5, <2>8 DEF Follows, Errors
<1>6. BusTypes' /\ PhyRegs' /\ WireTypes'
  BY <1>3 DEF BusTypes, PhyRegs, WireTypes, ctl, phy, wire, IsOp, Shape
<1> QED
  BY <1>5, <1>6

(* The value written has bits 0 to 31.                                        *)
LEMMA ValueTypes ==
  ASSUME PhyTypes, Running
  PROVE  IsOp([Tr EXCEPT !.bits = Value])
<1>1. IsOp(Tr)
  BY Current, OpFacts DEF PhyTypes
<1>2. /\ Shape([Tr EXCEPT !.bits = Value])
      /\ [Tr EXCEPT !.bits = Value].op = Tr.op /\ [Tr EXCEPT !.bits = Value].reg = Tr.reg
      /\ [Tr EXCEPT !.bits = Value].arg = Tr.arg /\ [Tr EXCEPT !.bits = Value].bits = Value
  BY <1>1 DEF IsOp, Shape
<1>3. CASE Tr.op = "write" /\ Tr.reg \in {"x13", "x14", "mmd", "bmcr"}
  <2>1. Tr.bits \subseteq All /\ acc \subseteq All
    BY <1>1, <1>3 DEF IsOp, PhyTypes, BusTypes
  <2>2. Value \subseteq All
    BY <2>1 DEF Value, High, Low
  <2> QED
    BY <1>1, <1>2, <2>2 DEF IsOp
<1>4. CASE ~(Tr.op = "write" /\ Tr.reg \in {"x13", "x14", "mmd", "bmcr"})
  BY <1>1, <1>2, <1>4 DEF IsOp
<1> QED
  BY <1>3, <1>4

(* A call begins at the first operation of its program.                       *)
LEMMA BeginTypes ==
  ASSUME PhyTypes, NEW op \in Ops, Begin(op)
  PROVE  PhyTypes'
<1> USE DEF PhyTypes
<1>1. phyCall' \in Calls
  <2>1. link \in LinkModes \cup {NoLink}
    BY DEF CallTypes
  <2> QED
    BY <2>1 DEF Begin, Calls
<1>2. GoodProgram(Program(phyCall'), phyCall')
  BY <1>1, GoodPrograms
<1>3. 1 \in 1 .. Len(Prog)' /\ 1 \in 1 .. Len(Prog'[1])
  BY <1>2, KindLen DEF GoodProgram, Prog
<1>4. phyCalls' \in 0 .. MaxPhyCalls
  BY PhyAssumption DEF CallTypes, Begin
<1>5. own' \subseteq LinkModes /\ partner' \subseteq LinkModes
  BY PhyAssumption DEF Begin
<1>6. link' \in LinkModes \cup {NoLink} /\ flaps' \in 0 .. MaxFlaps
  BY DEF CallTypes, Begin
<1>7. CallTypes'
  BY <1>1, <1>3, <1>4, <1>6 DEF CallTypes, Begin, Running, X, Errors
<1>8. BusTypes'
  BY DEF BusTypes, Begin, ctl, phy, All, IsOp, Shape
<1>9. PhyRegs'
  BY DEF PhyRegs, Begin, phy
<1> QED
  BY <1>5, <1>7, <1>8, <1>9 DEF WireTypes

(* Every step keeps the types.                                                *)
LEMMA TypesStep ==
  ASSUME PhyTypes, [Next]_vars
  PROVE  PhyTypes'
<1> USE DEF PhyTypes
<1> DEFINE callVars == <<phyCall, access, ip, phyErr, link, phyCalls, flaps>>
<1>1. ASSUME UNCHANGED callVars, st' = st \/ (Running /\ st' \in {"poll", "data"})
      PROVE  CallTypes'
  <2>1. Prog' = Prog
    BY <1>1 DEF Prog
  <2> QED
    BY <1>1, <2>1 DEF CallTypes, Running, X
<1>2. CASE \E op \in Ops : Begin(op)
  BY <1>2, BeginTypes
<1>3. CASE Fire
  <2>1. IsOp([Tr EXCEPT !.bits = Value])
    BY <1>3, ValueTypes DEF Fire, Running
  <2>2. CallTypes'
    BY <1>1, <1>3 DEF Fire, wire, Running
  <2>3. /\ acc' = acc /\ data' = data /\ bmcr' = bmcr
        /\ cur' = cur \/ cur' = [Tr EXCEPT !.bits = Value]
        /\ fire' \in BOOLEAN /\ idle' \in BOOLEAN
    BY <1>3 DEF Fire, phy, BusTypes
  <2>4. BusTypes'
    BY <2>1, <2>3 DEF BusTypes
  <2>5. PhyRegs' /\ WireTypes'
    BY <1>3 DEF Fire, PhyRegs, WireTypes, phy, wire
  <2> QED
    BY <2>2, <2>4, <2>5
<1>4. CASE Poll
  <2>1. Running /\ UNCHANGED <<phyCall, phyCalls, ctl, phy, wire, hist>>
    BY <1>4 DEF Poll, Running
  <2>2. ASSUME NEW ok \in BOOLEAN, Outcome(ok, {}) PROVE PhyTypes'
    <3>1. Follows(ok, {})
      BY <2>1, <2>2, OutcomeCases
    <3> QED
      BY <2>1, <3>1, OutcomeTypes
  <2>3. CASE st' = "data" /\ UNCHANGED <<access, ip, acc, phyErr, link>>
    <3>1. CallTypes'
      BY <1>1, <2>1, <2>3 DEF wire
    <3>2. BusTypes' /\ PhyRegs' /\ WireTypes'
      BY <2>1, <2>3 DEF BusTypes, PhyRegs, WireTypes, ctl, phy, wire, IsOp, Shape
    <3> QED
      BY <3>1, <3>2
  <2> QED
    BY <1>4, <2>2, <2>3 DEF Poll
<1>5. CASE Data
  <2>1. Running /\ UNCHANGED <<phyCall, phyCalls, ctl, phy, wire, hist>>
    BY <1>5 DEF Data, Running
  <2>2. /\ Outcome(idle, IF idle THEN data ELSE {}) /\ idle \in BOOLEAN
        /\ (IF idle THEN data ELSE {}) \subseteq All
    BY <1>5 DEF Data, BusTypes
  <2>3. Follows(idle, IF idle THEN data ELSE {})
    BY <2>1, <2>2, OutcomeCases
  <2> QED
    BY <2>1, <2>2, <2>3, OutcomeTypes
<1>6. CASE Finish
  <2>1. CallTypes'
    BY <1>1, <1>6 DEF Finish, drv
  <2>2. WireTypes' /\ acc' = acc /\ IsOp(cur)' /\ fire' \in BOOLEAN /\ idle' \in BOOLEAN
    BY <1>6 DEF Finish, drv, WireTypes, BusTypes, IsOp, Shape
  <2>3. CASE cur.op = "read"
    <3>1. data' = ReadOf(cur.reg) /\ UNCHANGED phy
      BY <1>6, <2>3 DEF Finish
    <3>2. data' \subseteq All
      BY <3>1, ReadTypes DEF BusTypes
    <3>3. BusTypes' /\ PhyRegs'
      BY <2>2, <3>1, <3>2 DEF BusTypes, PhyRegs, phy
    <3> QED
      BY <2>1, <2>2, <3>3
  <2>4. CASE cur.op # "read"
    <3>1. data' = data /\ Store(cur)
      BY <1>6, <2>4 DEF Finish
    <3>2. PhyRegs' /\ bmcr' \subseteq All
      BY <2>4, <3>1, StoreTypes
    <3>3. BusTypes'
      BY <2>2, <3>1, <3>2 DEF BusTypes
    <3> QED
      BY <2>1, <2>2, <3>2, <3>3
  <2> QED
    BY <2>3, <2>4
<1>7. CASE Idle \/ ResetDone
  <2>1. CallTypes'
    BY <1>1, <1>7 DEF Idle, ResetDone, drv, wire
  <2>2. bmcr' \subseteq All
    <3>1. {12} \subseteq All /\ bmcr \subseteq All
      BY DEF BusTypes, All
    <3> QED
      BY <1>7, <3>1 DEF Idle, ResetDone, phy
  <2>3. /\ UNCHANGED <<acc, data, cur, page, latch, buck, own, partner>>
        /\ fire' \in BOOLEAN /\ idle' \in BOOLEAN
    BY <1>7 DEF Idle, ResetDone, drv, ctl, phy, wire, BusTypes
  <2> QED
    BY <2>1, <2>2, <2>3 DEF BusTypes, PhyRegs, WireTypes, IsOp, Shape
<1>8. CASE AutoNegotiated \/ PartnerChange
  <2>1. UNCHANGED <<phyCall, access, ip, st, acc, phyErr, link, phyCalls, ctl, phy, own>>
    BY <1>8 DEF AutoNegotiated, PartnerChange, drv
  <2>2. flaps' \in 0 .. MaxFlaps /\ partner' \subseteq LinkModes
    BY <1>8, PhyAssumption DEF AutoNegotiated, PartnerChange, CallTypes, WireTypes
  <2>3. Prog' = Prog
    BY <2>1 DEF Prog
  <2>4. CallTypes'
    BY <2>1, <2>2, <2>3 DEF CallTypes, Running, X
  <2> QED
    BY <2>1, <2>2, <2>4 DEF BusTypes, PhyRegs, WireTypes, IsOp, Shape, ctl, phy
<1>9. CASE UNCHANGED vars
  <2>1. CallTypes'
    BY <1>1, <1>9 DEF vars, drv, wire
  <2> QED
    BY <1>9, <2>1 DEF vars, drv, ctl, phy, wire, BusTypes, PhyRegs, WireTypes, IsOp, Shape
<1> QED
  BY <1>2, <1>3, <1>4, <1>5, <1>6, <1>7, <1>8, <1>9 DEF Next

(* The types hold at the start.                                               *)
LEMMA TypesInit == Init => PhyTypes
<1> SUFFICES ASSUME Init PROVE PhyTypes
  OBVIOUS
<1>1. phyCall.op = "none" /\ ~Running /\ st = "return" /\ phyErr = "none"
  BY DEF Init, Running
<1>2. phyCalls \in 0 .. MaxPhyCalls /\ flaps \in 0 .. MaxFlaps /\ link \in LinkModes \cup {NoLink}
  BY PhyAssumption DEF Init
<1>3. CallTypes
  BY <1>1, <1>2 DEF CallTypes, Running
<1>4. BusTypes
  <2>1. acc \subseteq All /\ data \subseteq All /\ bmcr \subseteq All
    BY DEF Init, All
  <2>2. IsOp(cur)
    BY DEF Init, IsOp, Shape, Rd
  <2> QED
    BY <2>1, <2>2 DEF Init, BusTypes
<1>5. PhyRegs
  BY DEF Init, PhyRegs, All
<1> QED
  BY <1>3, <1>4, <1>5 DEF PhyTypes, WireTypes, Init

(* The types hold in every reachable state, with what TypeOK leaves out: the  *)
(* operation in flight, the page and the latches.                             *)
THEOREM TypesHold == Spec => []PhyTypes
<1>1. PhyTypes /\ [Next]_vars => PhyTypes'
  BY TypesStep
<1> QED
  BY TypesInit, <1>1, PTL DEF Spec

(* The types hold (TypeOK): whatever the controller and the PHY do, the call  *)
(* in progress is at an operation of its program.                             *)
THEOREM PhyTypeCorrect == Spec => []TypeOK
<1>1. PhyTypes => TypeOK
  BY DEF PhyTypes, CallTypes, BusTypes, PhyRegs, TypeOK, Running, X, Calls, Errors
<1> QED
  BY <1>1, TypesHold, PTL

-----------------------------------------------------------------------------
(* The invariant.                                                             *)

(* The next operation whose effect the PHY has not seen.                      *)
pos == IF st = "data" \/ (st = "poll" /\ ~fire) THEN ip + 1 ELSE ip

(* What the first j accesses set, and what they make of a register.           *)
Set(j) == UNION {Plain(Prog[k]) : k \in 1 .. j}
Old(j, a) ==
  (buck0[a] \ UNION {Mask(Prog[k], a) : k \in 1 .. j}) \cup UNION {Bits(Prog[k], a) : k \in 1 .. j}

PlainCommits == {c \in commits : c[1] \notin Readable}
DoneBefore ==
  PlainCommits = Set(access - 1) /\ \A a \in Readable : buck[a] = Old(access - 1, a)
DoneThis == PlainCommits = Set(access) /\ \A a \in Readable : buck[a] = Old(access, a)
Written(n) == IF pos >= n THEN DoneThis ELSE DoneBefore
Clean == commits # {} /\ phyCall.op # "WriteMMD" => page = 0

(* The PHY's page and latches while the operations of a store are done.       *)
Stored(x, n, p, pg, la, ac) ==
  /\ p - n \in 2 .. 7 => pg = 4
  /\ p - n = 8 => pg = 0
  /\ p - n >= 4 => la["x11"] = x[n + 3].arg
  /\ p - n >= 5 => la["x12"] = x[n + 4].arg
  /\ p - n >= 6 => la["x13"] = High((ac \ x[n + 5].clr) \cup x[n + 5].bits)
Fetched(x, p, pg, la) ==
  /\ p \in 2 .. 7 => pg = 4
  /\ p = 8 => pg = 0
  /\ p \in 4 .. 7 => la["x15"] = x[3].arg
  /\ p \in 5 .. 7 => la["x16"] = x[4].arg

Writing ==
  IsWrite(X) /\ (pos = 1 => Clean) /\ Stored(X, 0, pos, page, latch, acc) /\ Written(7)
Modifying ==
  /\ IsModify(X) /\ (pos = 1 => Clean)
  /\ Fetched(X, pos, page, latch) /\ Stored(X, 7, pos, page, latch, acc) /\ Written(14)
  /\ ip = 5 /\ pos = 6 => data = High(Old(access - 1, At(X, 7)))
  /\ ip = 6 => acc = High(Old(access - 1, At(X, 7)))
  /\ ip = 6 /\ pos = 7 => data = Low(Old(access - 1, At(X, 7)))
  /\ ip >= 7 => acc = Old(access - 1, At(X, 7))
OnPageOne ==
  /\ IsPageOne(X) /\ (pos = 1 => Clean) /\ (pos \in 2 .. 3 => page = 1) /\ (pos = 4 => page = 0)
  /\ Written(3)
OnStandard == IsStandard(X) /\ ~MmdOp(phyCall) /\ Clean /\ DoneBefore
OnMmd ==
  /\ IsMmd(X) /\ Kind(X, phyCall) /\ MmdOp(phyCall) /\ Clean
  /\ (pos >= 2 => latch["mmd"] = 7) /\ Written(3)
InAccess == Writing \/ Modifying \/ OnPageOne \/ OnStandard \/ OnMmd

(* An operation in flight is this one, or a read that was given up on.        *)
InFlight ==
  fire => \/ st = "poll" /\ cur = [Tr EXCEPT !.bits = Value]
          \/ st # "data" /\ Tr.then \in {"reset", "link"} /\ cur.op = "read"

(* What an operation would commit if it ended now.                            *)
CommitOf(c) ==
  CASE c.op = "write" /\ c.reg = "mmd" -> {<<latch["mmd"], c.bits>>}
    [] c.reg = "x14" /\ page = 4 ->
         {<<latch["x11"] * 65536 + latch["x12"], latch["x13"] \cup c.bits>>}
    [] c.reg \in {"x11", "x12", "x13", "x14", "x15", "x16"} /\ page # 4 -> {<<page, c.bits>>}
    [] OTHER -> {}
Harmless(c) == \A w \in CommitOf(c) : w[1] \in Readable \/ w \in WriteOnly(phyCall)
Returned ==
  /\ PlainCommits \subseteq WriteOnly(phyCall)
  /\ fire /\ cur.op # "read" => Harmless(cur)
  /\ phyErr = "nil" => ~fire /\ access = Len(Prog) /\ DoneThis /\ Clean

BuckInv == idle0 => IF Running THEN InAccess /\ InFlight ELSE Returned

-----------------------------------------------------------------------------
(* The invariant holds.                                                       *)

(* One access more.                                                           *)
LEMMA Grow ==
  ASSUME CallTypes, Running
  PROVE  /\ Set(access) = Set(access - 1) \cup Plain(X)
         /\ \A a : Old(access, a) = (Old(access - 1, a) \ Mask(X, a)) \cup Bits(X, a)
         /\ Set(access) \subseteq WriteOnly(phyCall) /\ Set(access - 1) \subseteq WriteOnly(phyCall)
<1>1. access \in 1 .. Len(Prog) /\ GoodProgram(Prog, phyCall) /\ Len(Prog) \in Nat
  BY Current DEF GoodProgram
<1>2. \A k : k \in 1 .. access <=> k \in 1 .. access - 1 \/ k = access
  BY <1>1
<1>3. Set(access) = Set(access - 1) \cup Plain(X)
  BY <1>2 DEF Set, X
<1>4. ASSUME NEW a
      PROVE  Old(access, a) = (Old(access - 1, a) \ Mask(X, a)) \cup Bits(X, a)
  <2>1. ASSUME NEW b, NEW k \in 1 .. access - 1, b \in Bits(Prog[k], a), b \in Mask(X, a)
        PROVE  b \in Bits(X, a)
    <3>1. k \in 1 .. Len(Prog)
      BY <1>1
    <3> QED
      BY <1>1, <2>1, <3>1 DEF GoodProgram, X
  <2>2. ASSUME NEW b
        PROVE  /\ b \in Old(access, a) <=>
                    \/ b \in buck0[a] /\ \A k \in 1 .. access : b \notin Mask(Prog[k], a)
                    \/ \E k \in 1 .. access : b \in Bits(Prog[k], a)
               /\ b \in Old(access - 1, a) <=>
                    \/ b \in buck0[a] /\ \A k \in 1 .. access - 1 : b \notin Mask(Prog[k], a)
                    \/ \E k \in 1 .. access - 1 : b \in Bits(Prog[k], a)
    BY DEF Old
  <2>3. ASSUME NEW b
        PROVE  b \in Old(access, a) <=> b \in (Old(access - 1, a) \ Mask(X, a)) \cup Bits(X, a)
    <3> DEFINE J == 1 .. access
               I == 1 .. access - 1
    <3>1. \A k : k \in J <=> k \in I \/ k = access
      BY <1>2
    <3>2. X = Prog[access]
      BY DEF X
    <3>3. /\ b \in Old(access, a) <=>
               \/ b \in buck0[a] /\ \A k \in J : b \notin Mask(Prog[k], a)
               \/ \E k \in J : b \in Bits(Prog[k], a)
          /\ b \in Old(access - 1, a) <=>
               \/ b \in buck0[a] /\ \A k \in I : b \notin Mask(Prog[k], a)
               \/ \E k \in I : b \in Bits(Prog[k], a)
      BY <2>2
    <3>4. \A k \in I : b \in Bits(Prog[k], a) /\ b \in Mask(X, a) => b \in Bits(X, a)
      BY <2>1
    <3> HIDE DEF I, J
    <3> QED
      BY <3>1, <3>2, <3>3, <3>4
  <2> QED
    BY <2>3 DEF Old
<1>5. Set(access) \subseteq WriteOnly(phyCall)
  <2>1. \A k \in 1 .. access : k \in 1 .. Len(Prog)
    BY <1>1
  <2>2. \A k \in 1 .. Len(Prog) : Plain(Prog[k]) \subseteq WriteOnly(phyCall)
    BY <1>1 DEF GoodProgram
  <2> QED
    BY <2>1, <2>2 DEF Set
<1> QED
  BY <1>3, <1>4, <1>5

(* Before the first access nothing is changed.                                *)
LEMMA Nothing ==
  ASSUME access = 1, commits = {}, buck = buck0, buck \in [Readable -> SUBSET All]
  PROVE  DoneBefore
<1>1. 1 .. access - 1 = {}
  OBVIOUS
<1>2. Set(access - 1) = {} /\ PlainCommits = {}
  BY <1>1 DEF Set, PlainCommits
<1>3. ASSUME NEW a \in Readable PROVE Old(access - 1, a) = buck0[a]
  <2>1. /\ UNION {Mask(Prog[k], a) : k \in 1 .. access - 1} = {}
        /\ UNION {Bits(Prog[k], a) : k \in 1 .. access - 1} = {}
    BY <1>1
  <2> QED
    BY <2>1 DEF Old
<1> QED
  BY <1>2, <1>3 DEF DoneBefore

(* Only a standard access polls.                                              *)
LEMMA Polling ==
  ASSUME CallTypes, Running, InAccess, Tr.then \notin {"must", "keep", "join"}
  PROVE  OnStandard
<1>1. ip \in 1 .. Len(X) /\ Tr = X[ip]
  BY Current
<1>2. CASE IsWrite(X)
  <2>1. ip \in {1, 2, 3, 4, 5, 6, 7}
    BY <1>1, <1>2 DEF IsWrite
  <2> QED
    BY <1>1, <1>2, <2>1 DEF IsWrite, Storing, Wrote
<1>3. CASE IsModify(X)
  <2>1. ip \in {1, 2, 3, 4, 5, 6, 7} \/ ip \in {8, 9, 10, 11, 12, 13, 14}
    BY <1>1, <1>3 DEF IsModify
  <2> QED
    BY <1>1, <1>3, <2>1 DEF IsModify, Storing, Fetching, Wrote, Reads
<1>4. CASE IsPageOne(X)
  <2>1. ip \in {1, 2, 3}
    BY <1>1, <1>4 DEF IsPageOne
  <2> QED
    BY <1>1, <1>4, <2>1 DEF IsPageOne, Wrote
<1>5. CASE IsMmd(X)
  <2>1. ip \in {1, 2}
    BY <1>1, <1>5 DEF IsMmd
  <2> QED
    BY <1>1, <1>5, <2>1 DEF IsMmd, Wrote, Reads
<1> QED
  BY <1>2, <1>3, <1>4, <1>5 DEF InAccess, Writing, Modifying, OnPageOne, OnMmd

(* An access that is done has changed what it is for, and left page 0.        *)
LEMMA AccessDone ==
  ASSUME CallTypes, Running, InAccess, pos = Len(X) + 1 \/ IsStandard(X)
  PROVE  DoneThis /\ Clean
<1>1. CASE OnStandard
  <2>1. Plain(X) = {} /\ ChangesNone(X)
    BY <1>1, StandardEffect DEF OnStandard
  <2>2. Set(access) = Set(access - 1) /\ \A a : Old(access, a) = Old(access - 1, a)
    BY <2>1, Grow DEF ChangesNone
  <2> QED
    BY <1>1, <2>2 DEF OnStandard, DoneBefore, DoneThis
<1>2. CASE Writing
  <2>1. pos = 8
    BY <1>2 DEF Writing, IsWrite, IsStandard
  <2> QED
    BY <1>2, <2>1 DEF Writing, Stored, Written, Clean
<1>3. CASE Modifying
  <2>1. pos = 15
    BY <1>3 DEF Modifying, IsModify, IsStandard
  <2> QED
    BY <1>3, <2>1 DEF Modifying, Stored, Written, Clean
<1>4. CASE OnPageOne
  <2>1. pos = 4
    BY <1>4 DEF OnPageOne, IsPageOne, IsStandard
  <2> QED
    BY <1>4, <2>1 DEF OnPageOne, Written, Clean
<1>5. CASE OnMmd
  <2>1. ~IsStandard(X) /\ Len(X) = 2
    BY <1>5 DEF OnMmd, IsMmd, IsStandard, Standard, Wrote
  <2>2. pos = 3
    BY <2>1
  <2> QED
    BY <1>5, <2>2 DEF OnMmd, Written
<1> QED
  BY <1>1, <1>2, <1>3, <1>4, <1>5 DEF InAccess

(* A word is its two halves.                                                  *)
LEMMA TwoHalves ==
  ASSUME NEW v, v \subseteq All
  PROVE  High(v) \cup Low(v) = v
<1>1. ASSUME NEW b \in v PROVE b \in High(v) \/ b \in Low(v)
  <2>1. b \in 0 .. 31
    BY DEF All
  <2>2. b >= 16 \/ b < 16
    BY <2>1
  <2> QED
    BY <2>2 DEF High, Low
<1>2. High(v) \subseteq v /\ Low(v) \subseteq v
  BY DEF High, Low
<1> QED
  BY <1>1, <1>2

(* What is set and changed so far only depends on the registers.              *)
LEMMA SameDone ==
  ASSUME UNCHANGED <<phyCall, access, buck, buck0, commits>>
  PROVE  X' = X /\ Prog' = Prog /\ (DoneThis' <=> DoneThis) /\ (DoneBefore' <=> DoneBefore)
<1>1. X' = X /\ Prog' = Prog
  BY DEF X, Prog
<1>2. ASSUME NEW j
      PROVE  Set(j)' = Set(j) /\ \A a : Old(j, a)' = Old(j, a)
  BY <1>1 DEF Set, Old
<1>3. PlainCommits' = PlainCommits
  BY DEF PlainCommits
<1>4. DoneThis' <=> DoneThis
  <2>1. Set(access)' = Set(access) /\ \A a : Old(access, a)' = Old(access, a)
    BY <1>1 DEF Set, Old
  <2> QED
    BY <1>3, <2>1 DEF DoneThis
<1>5. DoneBefore' <=> DoneBefore
  <2>1. Set(access - 1)' = Set(access - 1) /\ \A a : Old(access - 1, a)' = Old(access - 1, a)
    BY <1>1 DEF Set, Old
  <2> QED
    BY <1>3, <2>1 DEF DoneBefore
<1> QED
  BY <1>1, <1>4, <1>5

(* A step that moves neither the access nor the PHY.                          *)
LEMMA Frame ==
  ASSUME InAccess, UNCHANGED <<phyCall, access, ip, acc, page, latch, buck, buck0, commits>>,
         pos' = pos, data' = data
  PROVE  InAccess'
<1>1. X' = X /\ (DoneThis' <=> DoneThis) /\ (DoneBefore' <=> DoneBefore) /\ (Clean' <=> Clean)
  BY SameDone DEF Clean
<1>2. \A n : Written(n)' <=> Written(n)
  BY <1>1 DEF Written
<1>3. Writing => Writing'
  BY <1>1, <1>2 DEF Writing, Stored
<1>4. Modifying => Modifying'
  <2>1. Old(access - 1, At(X, 7))' = Old(access - 1, At(X, 7))
    BY <1>1 DEF Old, Prog
  <2> QED
    BY <1>1, <1>2, <2>1 DEF Modifying, Stored, Fetched
<1>5. OnPageOne => OnPageOne'
  BY <1>1, <1>2 DEF OnPageOne
<1>6. OnStandard => OnStandard'
  BY <1>1 DEF OnStandard, MmdOp
<1>7. OnMmd => OnMmd'
  BY <1>1, <1>2 DEF OnMmd, MmdOp, Kind
<1> QED
  BY <1>3, <1>4, <1>5, <1>6, <1>7 DEF InAccess

(* An access begins.                                                          *)
LEMMA Entry ==
  ASSUME Kind(X', phyCall'), pos' = 1, ip' = 1, Clean', DoneBefore'
  PROVE  InAccess'
<1>1. \A n \in {3, 7, 14} : Written(n)'
  BY DEF Written
<1>2. CASE IsWrite(X')
  BY <1>1, <1>2 DEF InAccess, Writing, Stored
<1>3. CASE IsModify(X')
  BY <1>1, <1>3 DEF InAccess, Modifying, Stored, Fetched
<1>4. CASE IsPageOne(X')
  BY <1>1, <1>4 DEF InAccess, OnPageOne
<1>5. CASE IsStandard(X') /\ ~MmdOp(phyCall')
  BY <1>5 DEF InAccess, OnStandard, MmdOp
<1>6. CASE IsMmd(X') /\ MmdOp(phyCall')
  BY <1>1, <1>6 DEF InAccess, OnMmd, MmdOp, Kind
<1> QED
  BY <1>2, <1>3, <1>4, <1>5, <1>6 DEF Kind

(* The next operation of the access: the PHY has seen the last one.           *)
LEMMA GoesOn ==
  ASSUME PhyTypes, Running, InAccess, NextOp, pos = ip + 1 \/ Tr.then = "ignore", pos' = ip',
         acc' = Read(data), UNCHANGED <<phyCall, page, latch, buck, buck0, commits>>
  PROVE  InAccess'
<1>1. /\ X' = X /\ Prog' = Prog /\ (DoneThis' <=> DoneThis) /\ (DoneBefore' <=> DoneBefore)
      /\ (Clean' <=> Clean) /\ access' = access
  BY SameDone DEF Clean, NextOp
<1>2. ip \in 1 .. Len(X) /\ Tr = X[ip] /\ ip < Len(X) /\ ip' = ip + 1
  BY Current DEF PhyTypes, NextOp
<1>3. CASE OnStandard
  BY <1>1, <1>3 DEF OnStandard, MmdOp, InAccess
<1>4. ~OnStandard => pos = ip + 1 /\ pos' = pos
  BY <1>2, Polling DEF PhyTypes
<1>5. pos' = pos => \A n : Written(n)' <=> Written(n)
  BY <1>1 DEF Written
<1>6. CASE Writing /\ pos' = pos
  <2>1. ip \in {1, 2, 3, 4, 5, 6}
    BY <1>2, <1>6 DEF Writing, IsWrite
  <2>2. Tr.then = "must"
    BY <1>2, <1>6, <2>1 DEF Writing, IsWrite, Storing, Wrote
  <2>3. acc' = acc
    BY <2>2 DEF Read
  <2> QED
    BY <1>1, <1>5, <1>6, <2>3 DEF Writing, Stored, InAccess
<1>7. CASE Modifying /\ pos' = pos /\ pos = ip + 1
  <2> DEFINE o == Old(access - 1, At(X, 7))
  <2>1. o' = o
    BY <1>1 DEF Old
  <2>2. ip \in {1, 2, 3, 4, 5, 6, 7} \/ ip \in {8, 9, 10, 11, 12, 13}
    BY <1>2, <1>7 DEF Modifying, IsModify
  <2>3. ip = 5 => Tr.then = "keep"
    BY <1>2, <1>7 DEF Modifying, IsModify, Fetching, Reads
  <2>4. ip = 6 => Tr.then = "join"
    BY <1>2, <1>7 DEF Modifying, IsModify, Fetching, Reads
  <2>5. ip \notin {5, 6} => Tr.then = "must"
    BY <1>2, <1>7, <2>2 DEF Modifying, IsModify, Fetching, Storing, Wrote
  <2>6. acc' = IF ip = 5 THEN data ELSE IF ip = 6 THEN acc \cup data ELSE acc
    BY <2>3, <2>4, <2>5 DEF Read
  <2>7. ip' = 6 => acc' = High(o)
    BY <1>2, <1>7, <2>6 DEF Modifying
  <2>8. ip' >= 7 => acc' = o
    <3>1. CASE ip = 6
      <4>1. acc = High(o) /\ data = Low(o) /\ DoneBefore
        BY <1>7, <3>1 DEF Modifying, Written
      <4>2. o \subseteq All
        BY <1>7, <4>1 DEF DoneBefore, Modifying, IsModify, PhyTypes, PhyRegs
      <4>3. High(o) \cup Low(o) = o
        BY <4>2, TwoHalves
      <4> QED
        BY <2>6, <3>1, <4>1, <4>3
    <3>2. CASE ip >= 7
      BY <1>7, <2>6, <3>2 DEF Modifying
    <3> QED
      BY <1>2, <3>1, <3>2
  <2>9. ~(ip' = 5 /\ pos' = 6) /\ ~(ip' = 6 /\ pos' = 7)
    BY <1>2, <1>7
  <2>10. Stored(X, 7, pos', page', latch', acc')
    <3>1. CASE ip \notin {5, 6}
      BY <1>7, <2>6, <3>1 DEF Modifying
    <3>2. CASE ip \in {5, 6}
      BY <1>2, <1>7, <3>2 DEF Stored
    <3> QED
      BY <3>1, <3>2
  <2>11. Fetched(X, pos', page', latch') /\ IsModify(X') /\ (pos' = 1 => Clean') /\ Written(14)'
    BY <1>1, <1>5, <1>7 DEF Modifying
  <2> HIDE DEF o
  <2>12. Modifying'
    BY <1>1, <2>1, <2>7, <2>8, <2>9, <2>10, <2>11 DEF Modifying, Stored, Fetched, o
  <2> QED
    BY <2>12 DEF InAccess
<1>8. CASE OnPageOne /\ pos' = pos
  BY <1>1, <1>5, <1>8 DEF OnPageOne, InAccess
<1>9. CASE OnMmd /\ pos' = pos
  BY <1>1, <1>5, <1>9 DEF OnMmd, MmdOp, Kind, InAccess
<1> QED
  BY <1>3, <1>4, <1>6, <1>7, <1>8, <1>9 DEF InAccess

(* The next access: the last one is done.                                     *)
LEMMA GoesToNext ==
  ASSUME PhyTypes, Running, InAccess, NextAccess, pos = Len(X) + 1 \/ IsStandard(X), pos' = 1,
         UNCHANGED <<phyCall, page, latch, buck, buck0, commits>>
  PROVE  InAccess'
<1>1. DoneThis /\ Clean
  BY AccessDone DEF PhyTypes
<1>2. access \in 1 .. Len(Prog) /\ GoodProgram(Prog, phyCall) /\ access' = access + 1 /\ ip' = 1
  BY Current DEF PhyTypes, NextAccess
<1>3. access + 1 \in 1 .. Len(Prog) /\ access' - 1 = access
  BY <1>2 DEF NextAccess, GoodProgram
<1>4. Prog' = Prog /\ X' = Prog[access + 1]
  BY <1>2 DEF X, Prog
<1>5. Kind(X', phyCall')
  BY <1>2, <1>3, <1>4 DEF GoodProgram
<1>6. Clean'
  BY <1>1 DEF Clean
<1>7. DoneBefore'
  <2> DEFINE SetOf(P, n) == UNION {Plain(P[k]) : k \in 1 .. n}
             OldOf(P, n, b, a) == (b[a] \ UNION {Mask(P[k], a) : k \in 1 .. n})
                                    \cup UNION {Bits(P[k], a) : k \in 1 .. n}
  <2>1. DoneThis <=> /\ PlainCommits = SetOf(Prog, access)
                     /\ \A a \in Readable : buck[a] = OldOf(Prog, access, buck0, a)
    BY DEF DoneThis, Set, Old
  <2>2. DoneBefore' <=> /\ PlainCommits' = SetOf(Prog', access' - 1)
                        /\ \A a \in Readable : buck'[a] = OldOf(Prog', access' - 1, buck0', a)
    BY DEF DoneBefore, Set, Old
  <2>3. PlainCommits' = PlainCommits
    BY DEF PlainCommits
  <2> HIDE DEF SetOf, OldOf
  <2> QED
    BY <1>1, <1>3, <1>4, <2>1, <2>2, <2>3
<1> QED
  BY <1>2, <1>5, <1>6, <1>7, Entry

(* The call's operation is in flight, and ends.                               *)
Flying == Running /\ fire /\ st = "poll" /\ cur = [Tr EXCEPT !.bits = Value]

(* The operation in flight is then the call's own, with the value the driver  *)
(* meant.                                                                     *)
LEMMA FlyingOp ==
  ASSUME PhyTypes, Flying
  PROVE  /\ cur.op = Tr.op /\ cur.reg = Tr.reg /\ cur.arg = Tr.arg /\ cur.bits = Value
         /\ pos = ip /\ Tr = X[ip] /\ ip \in 1 .. Len(X) /\ IsOp(cur) /\ page \in {0, 1, 4}
<1>1. IsOp(Tr) /\ Tr = X[ip] /\ ip \in 1 .. Len(X)
  BY Current, OpFacts DEF PhyTypes, Flying
<1>2. cur.op = Tr.op /\ cur.reg = Tr.reg /\ cur.arg = Tr.arg /\ cur.bits = Value
  BY <1>1 DEF IsOp, Shape, Flying
<1>3. IsOp(cur) /\ page \in {0, 1, 4}
  BY DEF PhyTypes, BusTypes, PhyRegs
<1> QED
  BY <1>1, <1>2, <1>3 DEF Flying, pos

(* The word a store commits.                                                  *)
LEMMA StoreWord ==
  ASSUME PhyTypes, Flying, NEW n \in {0, 7}, Storing(X, n), ip = n + 6,
         Stored(X, n, ip, page, latch, acc)
  PROVE  /\ cur.reg = "x14" /\ cur.op = "write" /\ page = 4
         /\ latch["x13"] \cup cur.bits = (acc \ X[n + 6].clr) \cup X[n + 6].bits
         /\ latch["x11"] * 65536 + latch["x12"] = At(X, n)
<1> DEFINE v == (acc \ X[n + 6].clr) \cup X[n + 6].bits
<1>1. /\ cur.op = Tr.op /\ cur.reg = Tr.reg /\ cur.bits = Value /\ Tr = X[ip]
  BY FlyingOp
<1>2. /\ cur.reg = "x14" /\ cur.op = "write" /\ page = 4
      /\ X[n + 5].clr = X[n + 6].clr /\ X[n + 5].bits = X[n + 6].bits
      /\ X[n + 5].bits \subseteq All
  BY <1>1 DEF Storing, Wrote, Stored
<1>3. cur.bits = Low(v)
  BY <1>1, <1>2 DEF Value
<1>4. latch["x13"] = High(v)
  BY <1>1, <1>2 DEF Stored
<1>5. High(v) \cup Low(v) = v
  <2>1. v \subseteq All
    BY <1>2 DEF PhyTypes, BusTypes
  <2> QED
    BY <2>1, TwoHalves, Zenon
<1> HIDE DEF v
<1>6. latch["x13"] \cup cur.bits = v
  BY <1>3, <1>4, <1>5
<1>7. latch["x11"] = X[n + 3].arg /\ latch["x12"] = X[n + 4].arg
  BY <1>1, <1>2 DEF Stored
<1>8. latch["x11"] * 65536 + latch["x12"] = At(X, n)
  <2> DEFINE F(hi, lo) == hi * 65536 + lo
  <2>1. /\ latch["x11"] * 65536 + latch["x12"] = F(latch["x11"], latch["x12"])
        /\ At(X, n) = F(X[n + 3].arg, X[n + 4].arg)
    BY SMT DEF At
  <2> HIDE DEF F
  <2> QED
    BY <1>7, <2>1, SMT
<1> QED
  BY <1>2, <1>6, <1>8 DEF v

(* One operation of a store.                                                  *)
LEMMA StoreOne ==
  ASSUME PhyTypes, Flying, Store(cur), NEW n \in {0, 7}, Storing(X, n), ip - n \in 1 .. 7,
         Stored(X, n, ip, page, latch, acc)
  PROVE  /\ Stored(X, n, ip + 1, page', latch', acc)
         /\ ip - n = 6 => Commit(At(X, n), (acc \ X[n + 6].clr) \cup X[n + 6].bits)
         /\ ip - n # 6 => UNCHANGED <<buck, commits>>
<1>1. /\ cur.op = Tr.op /\ cur.reg = Tr.reg /\ cur.arg = Tr.arg /\ cur.bits = Value
      /\ Tr = X[ip] /\ ip \in Int /\ IsOp(cur) /\ page \in {0, 1, 4}
  BY FlyingOp
<1>2. DOMAIN latch = {"x11", "x12", "x13", "x15", "x16", "mmd"}
  BY DEF PhyTypes, PhyRegs
<1>3. \/ ip = n + 1 \/ ip = n + 2 \/ ip = n + 3 \/ ip = n + 4 \/ ip = n + 5 \/ ip = n + 6
      \/ ip = n + 7
  BY <1>1
<1>4. CASE ip = n + 1
  <2>1. cur.reg = "page" /\ cur.arg = 4 /\ cur.op = "write"
    BY <1>1, <1>4 DEF Storing, Wrote
  <2>2. page' = 4 /\ UNCHANGED <<latch, buck, commits>>
    BY <1>1, <2>1, StoreCases
  <2> QED
    BY <1>4, <2>2 DEF Stored
<1>5. CASE ip = n + 2
  <2>1. cur.reg = "x10" /\ cur.op = "write"
    BY <1>1, <1>5 DEF Storing, Wrote
  <2>2. UNCHANGED <<page, latch, buck, commits>>
    BY <1>1, <2>1, StoreCases DEF phy
  <2> QED
    BY <1>5, <2>2 DEF Stored
<1>6. CASE ip = n + 3
  <2>1. cur.reg = "x11" /\ cur.op = "write" /\ cur.arg = X[n + 3].arg /\ page = 4
    BY <1>1, <1>6 DEF Storing, Wrote, Stored
  <2>2. latch' = [latch EXCEPT !["x11"] = cur.arg] /\ UNCHANGED <<page, buck, commits>>
    BY <1>1, <2>1, StoreCases DEF Latched
  <2> QED
    BY <1>2, <1>6, <2>1, <2>2 DEF Stored
<1>7. CASE ip = n + 4
  <2>1. cur.reg = "x12" /\ cur.op = "write" /\ cur.arg = X[n + 4].arg /\ page = 4
    BY <1>1, <1>7 DEF Storing, Wrote, Stored
  <2>2. latch' = [latch EXCEPT !["x12"] = cur.arg] /\ UNCHANGED <<page, buck, commits>>
    BY <1>1, <2>1, StoreCases DEF Latched
  <2> QED
    BY <1>2, <1>7, <2>1, <2>2 DEF Stored
<1>8. CASE ip = n + 5
  <2>1. cur.reg = "x13" /\ cur.op = "write" /\ page = 4
    BY <1>1, <1>8 DEF Storing, Wrote, Stored
  <2>2. latch' = [latch EXCEPT !["x13"] = cur.bits] /\ UNCHANGED <<page, buck, commits>>
    BY <1>1, <2>1, StoreCases DEF Latched
  <2>3. cur.bits = High((acc \ X[n + 5].clr) \cup X[n + 5].bits)
    BY <1>1, <1>8, <2>1 DEF Value
  <2> QED
    BY <1>2, <1>8, <2>2, <2>3 DEF Stored
<1>9. CASE ip = n + 6
  <2> DEFINE v == (acc \ X[n + 6].clr) \cup X[n + 6].bits
             a == latch["x11"] * 65536 + latch["x12"]
             w == latch["x13"] \cup cur.bits
  <2>1. cur.reg = "x14" /\ cur.op = "write" /\ page = 4 /\ w = v /\ a = At(X, n)
    BY <1>9, StoreWord
  <2>2. Commit(a, w) /\ UNCHANGED <<page, latch>>
    BY <1>1, <2>1, StoreCases
  <2>3. Stored(X, n, ip + 1, page', latch', acc)
    BY <1>9, <2>2 DEF Stored
  <2> HIDE DEF a, w, v
  <2>4. Commit(At(X, n), v)
    BY <2>1, <2>2 DEF Commit
  <2> QED
    BY <1>9, <2>3, <2>4 DEF v
<1>10. CASE ip = n + 7
  <2>1. cur.reg = "page" /\ cur.arg = 0 /\ cur.op = "write"
    BY <1>1, <1>10 DEF Storing, Wrote
  <2>2. page' = 0 /\ UNCHANGED <<latch, buck, commits>>
    BY <1>1, <2>1, StoreCases
  <2> QED
    BY <1>10, <2>2 DEF Stored
<1> QED
  BY <1>3, <1>4, <1>5, <1>6, <1>7, <1>8, <1>9, <1>10

(* What its end leaves alone.                                                 *)
LEMMA FinishKeeps ==
  ASSUME Flying, Finish
  PROVE  /\ UNCHANGED <<phyCall, access, ip, st, acc, phyErr, buck0>> /\ X' = X /\ Prog' = Prog
         /\ fire' = FALSE /\ pos' = ip + 1 /\ pos = ip
         /\ cur.op = "read" => data' = ReadOf(cur.reg) /\ UNCHANGED <<page, latch, buck, commits>>
         /\ cur.op # "read" => data' = data /\ Store(cur)
<1>1. UNCHANGED drv /\ UNCHANGED buck0 /\ fire' = FALSE
  BY DEF Finish
<1>2. UNCHANGED <<phyCall, access, ip, st, acc, phyErr, buck0>>
  BY <1>1 DEF drv
<1>3. X' = X /\ Prog' = Prog
  BY <1>2 DEF X, Prog
<1>4. pos' = ip + 1 /\ pos = ip
  BY <1>1, <1>2 DEF Flying, pos
<1>5. cur.op = "read" => data' = ReadOf(cur.reg) /\ UNCHANGED <<page, latch, buck, commits>>
  BY DEF Finish, phy
<1>6. cur.op # "read" => data' = data /\ Store(cur)
  BY DEF Finish
<1> QED
  BY <1>1, <1>2, <1>3, <1>4, <1>5, <1>6

(* The write of an access completes what it is for.                           *)
LEMMA CommitDone ==
  ASSUME PhyTypes, Flying, Finish, DoneBefore, NEW a, NEW v, Commit(a, v),
         a \notin Readable => Plain(X) = {<<a, v>>} /\ ChangesNone(X),
         a \in Readable =>
           /\ Plain(X) = {} /\ v = (Old(access - 1, a) \ Mask(X, a)) \cup Bits(X, a)
           /\ \A r : r # a => Mask(X, r) = {} /\ Bits(X, r) = {}
  PROVE  DoneThis'
<1>1. /\ Set(access) = Set(access - 1) \cup Plain(X)
      /\ \A r : Old(access, r) = (Old(access - 1, r) \ Mask(X, r)) \cup Bits(X, r)
  BY Grow DEF PhyTypes, Flying
<1>2. UNCHANGED <<access, buck0>> /\ Prog' = Prog
  BY FinishKeeps
<1>3. PlainCommits' = Set(access)
  <2>1. PlainCommits' = PlainCommits \cup (IF a \in Readable THEN {} ELSE {<<a, v>>})
    BY DEF PlainCommits, Commit
  <2> QED
    BY <1>1, <2>1 DEF DoneBefore
<1>4. ASSUME NEW r \in Readable PROVE buck'[r] = Old(access, r)
  <2>1. buck[r] = Old(access - 1, r) /\ buck \in [Readable -> SUBSET All]
    BY DEF DoneBefore, PhyTypes, PhyRegs
  <2>2. CASE r = a
    BY <1>1, <1>4, <2>1, <2>2 DEF Commit
  <2>3. CASE r # a
    <3>1. buck'[r] = buck[r] /\ Mask(X, r) = {} /\ Bits(X, r) = {}
      BY <1>4, <2>1, <2>3 DEF Commit, ChangesNone
    <3> QED
      BY <1>1, <2>1, <3>1
  <2> QED
    BY <2>2, <2>3
<1>5. Set(access)' = Set(access) /\ \A r : Old(access, r)' = Old(access, r)
  BY <1>2 DEF Set, Old
<1> QED
  BY <1>3, <1>4, <1>5 DEF DoneThis

(* In a buckWrite, an operation that ends leaves the access as far as its     *)
(* next one.                                                                  *)
LEMMA FinishWriting ==
  ASSUME PhyTypes, Flying, Finish, Writing
  PROVE  Writing'
<1>1. /\ UNCHANGED <<phyCall, access, acc, buck0>> /\ X' = X /\ pos' = ip + 1 /\ pos = ip
      /\ cur.op # "read" => Store(cur)
  BY FinishKeeps
<1>2. Len(X) = 7 /\ Storing(X, 0) /\ X[5].clr = All /\ At(X, 0) \notin Readable
  BY DEF Writing, IsWrite
<1>3. ip \in 1 .. 7 /\ cur.op = Tr.op /\ Tr = X[ip]
  BY <1>2, FlyingOp
<1>4. cur.op = "write"
  <2>1. ip \in {1, 2, 3, 4, 5, 6, 7}
    BY <1>3
  <2> QED
    BY <1>2, <1>3, <2>1 DEF Storing, Wrote
<1>5. /\ Stored(X, 0, ip + 1, page', latch', acc)
      /\ ip = 6 => Commit(At(X, 0), (acc \ X[6].clr) \cup X[6].bits)
      /\ ip # 6 => UNCHANGED <<buck, commits>>
  <2>1. /\ Storing(X, 0) /\ ip - 0 \in 1 .. 7 /\ Stored(X, 0, ip, page, latch, acc)
        /\ ip - 0 = ip /\ 0 + 6 = 6 /\ Store(cur)
    BY <1>1, <1>2, <1>3, <1>4 DEF Writing
  <2> QED
    BY <2>1, StoreOne
<1>6. CASE ip = 6
  <2>1. DoneBefore
    BY <1>1, <1>6 DEF Writing, Written
  <2>2. (acc \ X[6].clr) \cup X[6].bits = X[5].bits
    BY <1>2 DEF Storing, PhyTypes, BusTypes
  <2>3. Plain(X) = {<<At(X, 0), X[5].bits>>} /\ ChangesNone(X)
    BY <1>2 DEF Plain, ChangesNone, Mask, Bits
  <2>4. Commit(At(X, 0), X[5].bits)
    BY <1>5, <1>6, <2>2
  <2>5. DoneThis'
    BY <1>2, <2>1, <2>3, <2>4, CommitDone
  <2> QED
    BY <1>1, <1>5, <1>6, <2>5 DEF Writing, Written, Stored
<1>7. CASE ip # 6
  <2>1. (DoneThis' <=> DoneThis) /\ (DoneBefore' <=> DoneBefore)
    BY <1>1, <1>5, <1>7, SameDone
  <2>2. Written(7)'
    BY <1>1, <1>3, <1>7, <2>1 DEF Writing, Written
  <2> QED
    BY <1>1, <1>3, <1>5, <2>2 DEF Writing, Stored
<1> QED
  BY <1>6, <1>7

(* One operation of a register's reading.                                     *)
LEMMA FetchOne ==
  ASSUME PhyTypes, Flying, Finish, Modifying, ip \in 1 .. 7
  PROVE  /\ Fetched(X, ip + 1, page', latch') /\ UNCHANGED <<buck, commits>>
         /\ ip = 5 => data' = High(Old(access - 1, At(X, 7)))
         /\ ip = 6 => data' = Low(Old(access - 1, At(X, 7)))
<1>1. /\ cur.op = Tr.op /\ cur.reg = Tr.reg /\ cur.arg = Tr.arg
      /\ Tr = X[ip] /\ IsOp(cur) /\ page \in {0, 1, 4}
  BY FlyingOp
<1>2. /\ pos = ip
      /\ cur.op = "read" => data' = ReadOf(cur.reg) /\ UNCHANGED <<page, latch, buck, commits>>
      /\ cur.op # "read" => Store(cur)
  BY FinishKeeps
<1>3. Fetching(X) /\ Fetched(X, ip, page, latch) /\ At(X, 7) \in Readable /\ DoneBefore
  BY <1>2 DEF Modifying, IsModify, Written
<1>4. DOMAIN latch = {"x11", "x12", "x13", "x15", "x16", "mmd"}
  BY DEF PhyTypes, PhyRegs
<1>5. ip = 1 \/ ip = 2 \/ ip = 3 \/ ip = 4 \/ ip = 5 \/ ip = 6 \/ ip = 7
  OBVIOUS
<1>6. CASE ip = 1
  <2>1. cur.reg = "page" /\ cur.arg = 4 /\ cur.op = "write"
    BY <1>1, <1>3, <1>6 DEF Fetching, Wrote
  <2>2. page' = 4 /\ UNCHANGED <<latch, buck, commits>>
    BY <1>1, <1>2, <2>1, StoreCases
  <2> QED
    BY <1>6, <2>2 DEF Fetched
<1>7. CASE ip = 2
  <2>1. cur.reg = "x10" /\ cur.op = "write" /\ page = 4
    BY <1>1, <1>3, <1>7 DEF Fetching, Wrote, Fetched
  <2>2. UNCHANGED <<page, latch, buck, commits>>
    BY <1>1, <1>2, <2>1, StoreCases DEF phy
  <2> QED
    BY <1>7, <2>1, <2>2 DEF Fetched
<1>8. CASE ip = 3
  <2>1. cur.reg = "x15" /\ cur.op = "write" /\ cur.arg = X[3].arg /\ page = 4
    BY <1>1, <1>3, <1>8 DEF Fetching, Wrote, Fetched
  <2>2. latch' = [latch EXCEPT !["x15"] = cur.arg] /\ UNCHANGED <<page, buck, commits>>
    BY <1>1, <1>2, <2>1, StoreCases DEF Latched
  <2> QED
    BY <1>4, <1>8, <2>1, <2>2 DEF Fetched
<1>9. CASE ip = 4
  <2>1. /\ cur.reg = "x16" /\ cur.op = "write" /\ cur.arg = X[4].arg /\ page = 4
        /\ latch["x15"] = X[3].arg
    BY <1>1, <1>3, <1>9 DEF Fetching, Wrote, Fetched
  <2>2. latch' = [latch EXCEPT !["x16"] = cur.arg] /\ UNCHANGED <<page, buck, commits>>
    BY <1>1, <1>2, <2>1, StoreCases DEF Latched
  <2> QED
    BY <1>4, <1>9, <2>1, <2>2 DEF Fetched
<1>10. CASE ip \in {5, 6}
  <2>1. /\ cur.op = "read" /\ cur.reg = (IF ip = 5 THEN "x17" ELSE "x18") /\ page = 4
        /\ latch["x15"] = X[10].arg /\ latch["x16"] = X[11].arg
    BY <1>1, <1>3, <1>10 DEF Fetching, Reads, Fetched
  <2>2. data' = ReadOf(cur.reg) /\ UNCHANGED <<page, latch, buck, commits>>
    BY <1>2, <2>1
  <2>3. BuckAt(latch["x15"], latch["x16"]) = BuckAt(X[10].arg, X[11].arg)
    BY <2>1
  <2>4. BuckAt(X[10].arg, X[11].arg) = buck[At(X, 7)]
    <3>1. At(X, 7) = X[10].arg * 65536 + X[11].arg
      BY SMT DEF At
    <3> QED
      BY <1>3, <3>1, SMT DEF BuckAt
  <2>5. buck[At(X, 7)] = Old(access - 1, At(X, 7))
    BY <1>3 DEF DoneBefore
  <2>6. /\ ip = 5 => ReadOf(cur.reg) = High(BuckAt(latch["x15"], latch["x16"]))
        /\ ip = 6 => ReadOf(cur.reg) = Low(BuckAt(latch["x15"], latch["x16"]))
    BY <1>10, <2>1 DEF ReadOf
  <2>7. Fetched(X, ip + 1, page', latch')
    BY <1>3, <1>10, <2>1, <2>2 DEF Fetched
  <2> QED
    BY <2>2, <2>3, <2>4, <2>5, <2>6, <2>7
<1>11. CASE ip = 7
  <2>1. cur.reg = "page" /\ cur.arg = 0 /\ cur.op = "write"
    BY <1>1, <1>3, <1>11 DEF Fetching, Wrote
  <2>2. page' = 0 /\ UNCHANGED <<latch, buck, commits>>
    BY <1>1, <1>2, <2>1, StoreCases
  <2> QED
    BY <1>11, <2>2 DEF Fetched
<1> QED
  BY <1>5, <1>6, <1>7, <1>8, <1>9, <1>10, <1>11

(* The same in a buckModify: what was fetched is stored with m cleared and s  *)
(* set.                                                                       *)
LEMMA FinishModifying ==
  ASSUME PhyTypes, Flying, Finish, Modifying
  PROVE  Modifying'
<1> DEFINE o == Old(access - 1, At(X, 7))
<1>1. /\ UNCHANGED <<phyCall, access, ip, acc, buck0>> /\ X' = X /\ Prog' = Prog
      /\ pos' = ip + 1 /\ pos = ip /\ (cur.op # "read" => Store(cur))
  BY FinishKeeps
<1>2. Len(X) = 14 /\ Storing(X, 7) /\ At(X, 7) \in Readable /\ IsModify(X)
  BY DEF Modifying, IsModify
<1>3. ip \in 1 .. 14 /\ cur.op = Tr.op /\ Tr = X[ip]
  BY <1>2, FlyingOp
<1>4. o' = o
  BY <1>1 DEF Old
<1>5. CASE ip \in 1 .. 7
  <2>1. /\ Fetched(X, ip + 1, page', latch') /\ UNCHANGED <<buck, commits>>
        /\ ip = 5 => data' = High(o)
        /\ ip = 6 => data' = Low(o)
    BY <1>5, FetchOne
  <2>2. DoneBefore'
    BY <1>1, <1>5, <2>1, SameDone DEF Modifying, Written
  <2>3. Stored(X, 7, ip + 1, page', latch', acc)
    BY <1>5 DEF Stored
  <2> HIDE DEF o
  <2>4. (ip' = 6 => acc' = High(o)) /\ (ip' >= 7 => acc' = o)
    BY <1>1 DEF Modifying, o
  <2>5. Written(14)' /\ pos' # 1
    BY <1>1, <1>5, <2>2 DEF Written
  <2> QED
    BY <1>1, <1>2, <1>4, <1>5, <2>1, <2>3, <2>4, <2>5 DEF Modifying, Stored, Fetched, o
<1>6. CASE ip \in 8 .. 14
  <2>1. cur.op = "write"
    <3>1. ip \in {8, 9, 10, 11, 12, 13, 14}
      BY <1>6
    <3> QED
      BY <1>2, <1>3, <3>1 DEF Storing, Wrote
  <2>2. /\ Stored(X, 7, ip + 1, page', latch', acc)
        /\ ip = 13 => Commit(At(X, 7), (acc \ X[13].clr) \cup X[13].bits)
        /\ ip # 13 => UNCHANGED <<buck, commits>>
    <3>1. /\ ip - 7 \in 1 .. 7 /\ (ip - 7 = 6 <=> ip = 13) /\ 7 + 6 = 13
          /\ Stored(X, 7, ip, page, latch, acc) /\ Store(cur)
      BY <1>1, <1>6, <2>1 DEF Modifying
    <3> QED
      BY <1>2, <3>1, StoreOne
  <2>3. acc = o
    BY <1>6 DEF Modifying
  <2>4. Written(14)'
    <3>1. CASE ip = 13
      <4>1. DoneBefore
        BY <1>1, <3>1 DEF Modifying, Written
      <4>2. /\ Mask(X, At(X, 7)) = X[13].clr /\ Bits(X, At(X, 7)) = X[13].bits /\ Plain(X) = {}
            /\ \A r : r # At(X, 7) => Mask(X, r) = {} /\ Bits(X, r) = {}
        BY <1>2 DEF Mask, Bits, Plain, Storing
      <4> DEFINE w == (acc \ X[13].clr) \cup X[13].bits
      <4>3. Commit(At(X, 7), w) /\ w = (o \ Mask(X, At(X, 7))) \cup Bits(X, At(X, 7))
        BY <2>2, <2>3, <3>1, <4>2
      <4> HIDE DEF w
      <4>4. DoneThis'
        BY <1>2, <4>1, <4>2, <4>3, CommitDone
      <4> QED
        BY <1>1, <3>1, <4>4 DEF Written
    <3>2. CASE ip # 13
      <4>1. (DoneThis' <=> DoneThis) /\ (DoneBefore' <=> DoneBefore)
        BY <1>1, <2>2, <3>2, SameDone
      <4> QED
        BY <1>1, <1>3, <3>2, <4>1 DEF Modifying, Written
    <3> QED
      BY <3>1, <3>2
  <2>5. Fetched(X, ip + 1, page', latch')
    BY <1>6 DEF Fetched
  <2> HIDE DEF o
  <2> QED
    BY <1>1, <1>2, <1>4, <1>6, <2>2, <2>3, <2>4, <2>5 DEF Modifying, Stored, Fetched, o
<1> QED
  BY <1>3, <1>5, <1>6

(* The same in the write on page one.                                         *)
LEMMA FinishPageOne ==
  ASSUME PhyTypes, Flying, Finish, OnPageOne
  PROVE  OnPageOne'
<1>1. /\ UNCHANGED <<phyCall, access, ip, acc, buck0>> /\ X' = X /\ pos' = ip + 1 /\ pos = ip
      /\ cur.op # "read" => Store(cur)
  BY FinishKeeps
<1>2. /\ cur.op = Tr.op /\ cur.reg = Tr.reg /\ cur.arg = Tr.arg /\ cur.bits = Value
      /\ Tr = X[ip] /\ ip \in 1 .. Len(X) /\ IsOp(cur) /\ page \in {0, 1, 4}
  BY FlyingOp
<1>3. IsPageOne(X) /\ Len(X) = 3 /\ (ip = 1 \/ ip = 2 \/ ip = 3)
  BY <1>2 DEF OnPageOne, IsPageOne
<1>4. CASE ip \in {1, 3}
  <2>1. cur.reg = "page" /\ cur.arg = (IF ip = 1 THEN 1 ELSE 0) /\ cur.op = "write"
    BY <1>2, <1>3, <1>4 DEF IsPageOne, Wrote
  <2>2. page' = (IF ip = 1 THEN 1 ELSE 0) /\ UNCHANGED <<latch, buck, commits>>
    BY <1>1, <1>2, <2>1, StoreCases
  <2>3. (DoneThis' <=> DoneThis) /\ (DoneBefore' <=> DoneBefore)
    BY <1>1, <2>2, SameDone
  <2>4. Written(3)'
    BY <1>1, <1>4, <2>3 DEF OnPageOne, Written
  <2> QED
    BY <1>1, <1>3, <1>4, <2>2, <2>4 DEF OnPageOne
<1>5. CASE ip = 2
  <2>1. cur.reg = "x14" /\ cur.op = "write" /\ page = 1
    BY <1>1, <1>2, <1>3, <1>5 DEF OnPageOne, IsPageOne, Wrote
  <2>2. Commit(page, cur.bits) /\ page' = page
    BY <1>1, <1>2, <2>1, StoreCases
  <2>3. cur.bits = X[2].bits
    <3>1. cur.bits = Low((acc \ X[2].clr) \cup X[2].bits)
      BY <1>2, <1>5, <2>1 DEF Value
    <3>2. (acc \ X[2].clr) \cup X[2].bits = X[2].bits
      BY <1>3 DEF IsPageOne, PhyTypes, BusTypes
    <3>3. Low(X[2].bits) = X[2].bits
      BY <1>3 DEF IsPageOne, Low
    <3> QED
      BY <3>1, <3>2, <3>3
  <2>4. Plain(X) = {<<1, X[2].bits>>} /\ ChangesNone(X) /\ 1 \notin Readable /\ DoneBefore
    BY <1>1, <1>3, <1>5, PageOneEffect DEF Readable, Speed, Gpio, OnPageOne, Written
  <2>5. Commit(1, X[2].bits)
    BY <2>1, <2>2, <2>3 DEF Commit
  <2>6. DoneThis'
    BY <2>4, <2>5, CommitDone
  <2> QED
    BY <1>1, <1>3, <1>5, <2>1, <2>2, <2>6 DEF OnPageOne, Written
<1> QED
  BY <1>3, <1>4, <1>5

(* The same in a Clause 45 access.                                            *)
LEMMA FinishMmd ==
  ASSUME PhyTypes, Flying, Finish, OnMmd
  PROVE  OnMmd'
<1>1. /\ UNCHANGED <<phyCall, access, ip, acc, buck0>> /\ X' = X /\ pos' = ip + 1 /\ pos = ip
      /\ cur.op = "read" => UNCHANGED <<page, latch, buck, commits>>
      /\ cur.op # "read" => Store(cur)
  BY FinishKeeps
<1>2. /\ cur.op = Tr.op /\ cur.reg = Tr.reg /\ cur.arg = Tr.arg /\ cur.bits = Value
      /\ Tr = X[ip] /\ ip \in 1 .. Len(X) /\ IsOp(cur) /\ page \in {0, 1, 4}
  BY FlyingOp
<1>3. IsMmd(X) /\ Len(X) = 2 /\ (ip = 1 \/ ip = 2) /\ Kind(X, phyCall) /\ MmdOp(phyCall)
  BY <1>2 DEF OnMmd, IsMmd
<1>4. DOMAIN latch = {"x11", "x12", "x13", "x15", "x16", "mmd"}
  BY DEF PhyTypes, PhyRegs
<1>5. Kind(X, phyCall)' /\ MmdOp(phyCall)'
  BY <1>1, <1>3 DEF Kind, MmdOp
<1>6. CASE ip = 1
  <2>1. cur.op = "addr" /\ cur.arg = 7
    BY <1>2, <1>3, <1>6 DEF IsMmd
  <2>2. latch' = [latch EXCEPT !["mmd"] = 7] /\ UNCHANGED <<page, buck, commits>>
    BY <1>1, <1>2, <2>1, StoreCases
  <2>3. Clean' /\ Written(3)'
    BY <1>1, <1>6, <2>2, SameDone DEF OnMmd, Written, Clean
  <2> QED
    BY <1>1, <1>3, <1>4, <1>5, <1>6, <2>2, <2>3 DEF OnMmd
<1>7. CASE ip = 2 /\ X[2].op = "read"
  <2>1. UNCHANGED <<page, latch, buck, commits>>
    BY <1>1, <1>2, <1>7
  <2>2. Clean' /\ (DoneThis' <=> DoneThis) /\ (DoneBefore' <=> DoneBefore)
    BY <1>1, <2>1, SameDone DEF OnMmd, Clean
  <2>3. DoneBefore => DoneThis
    <3>1. Plain(X) = {} /\ ChangesNone(X)
      BY <1>3, <1>7 DEF IsMmd, Plain, ChangesNone, Mask, Bits
    <3>2. Set(access) = Set(access - 1) /\ \A a : Old(access, a) = Old(access - 1, a)
      BY <3>1, Grow DEF ChangesNone, PhyTypes, Flying
    <3> QED
      BY <3>2 DEF DoneBefore, DoneThis
  <2>4. Written(3)' /\ latch'["mmd"] = 7
    BY <1>1, <1>7, <2>1, <2>2, <2>3 DEF OnMmd, Written
  <2> QED
    BY <1>1, <1>3, <1>5, <2>2, <2>4 DEF OnMmd
<1>8. CASE ip = 2 /\ X[2].op # "read"
  <2>1. /\ cur.reg = "mmd" /\ cur.op = "write" /\ X[2].bits = {3} /\ X[2].clr = All
        /\ X[2].op = "write" /\ X[2].reg = "mmd"
    BY <1>2, <1>3, <1>8 DEF IsMmd, Reads, Wrote
  <2>2. Commit(latch["mmd"], cur.bits) /\ UNCHANGED <<page, latch>>
    BY <1>1, <1>2, <2>1, StoreCases
  <2>3. cur.bits = {3} /\ latch["mmd"] = 7 /\ DoneBefore
    <3>1. cur.bits = (acc \ All) \cup {3}
      BY <1>2, <1>8, <2>1 DEF Value
    <3> QED
      BY <1>1, <1>8, <3>1 DEF OnMmd, Written, PhyTypes, BusTypes
  <2>4. Plain(X) = {<<7, {3}>>} /\ ChangesNone(X) /\ 7 \notin Readable
    BY <1>3, <2>1 DEF Plain, ChangesNone, Mask, Bits, Readable, Speed, Gpio
  <2>5. Commit(7, {3})
    BY <2>2, <2>3 DEF Commit
  <2>6. DoneThis'
    BY <2>3, <2>4, <2>5, CommitDone
  <2>7. phyCall.op = "WriteMMD"
    BY <1>3, <1>8 DEF Kind, MmdOp, IsMmd, IsWrite, IsModify, IsPageOne
  <2> QED
    BY <1>1, <1>3, <1>5, <1>8, <2>2, <2>3, <2>6, <2>7 DEF OnMmd, Written, Clean
<1> QED
  BY <1>3, <1>6, <1>7, <1>8

(* An access of the standard registers stays without effect, also when what   *)
(* ends is a read that the driver gave up on.                                 *)
LEMMA FinishStandard ==
  ASSUME PhyTypes, Running, Finish, OnStandard, Flying \/ cur.op = "read"
  PROVE  OnStandard'
<1>1. UNCHANGED <<phyCall, access, buck0>>
  BY DEF Finish, drv
<1>2. UNCHANGED <<page, buck, commits>>
  <2>1. CASE cur.op = "read"
    BY <2>1 DEF Finish, phy
  <2>2. CASE Flying /\ cur.op # "read"
    <3>1. /\ cur.op = Tr.op /\ cur.reg = Tr.reg /\ Tr = X[ip] /\ ip \in 1 .. Len(X) /\ IsOp(cur)
          /\ page \in {0, 1, 4} /\ Store(cur)
      BY <2>2, FlyingOp, FinishKeeps
    <3>2. cur.reg = "bmcr"
      BY <2>2, <3>1 DEF OnStandard, IsStandard, Standard, Wrote
    <3> QED
      BY <3>1, <3>2, <2>2, StoreCases
  <2> QED
    BY <2>1, <2>2
<1> QED
  BY <1>1, <1>2, SameDone DEF OnStandard, MmdOp, Clean

(* Whichever access runs, the end of its operation is what it expects.        *)
LEMMA FinishAccess ==
  ASSUME PhyTypes, Flying, Finish, InAccess
  PROVE  InAccess'
  BY FinishWriting, FinishModifying, FinishPageOne, FinishStandard, FinishMmd
     DEF InAccess, Flying

-----------------------------------------------------------------------------
(* Once the call has returned.                                                *)

(* What the accesses have set is what the call is for.                        *)
LEMMA InAccessSets ==
  ASSUME CallTypes, Running, InAccess
  PROVE  PlainCommits \subseteq WriteOnly(phyCall)
<1>1. DoneBefore \/ DoneThis
  BY DEF InAccess, Writing, Modifying, OnPageOne, OnStandard, OnMmd, Written
<1> QED
  BY <1>1, Grow DEF DoneBefore, DoneThis

(* Only three writes commit anything.                                         *)
LEMMA CommitNone ==
  ASSUME IsOp(cur), \/ cur.op = "addr" \/ cur.reg \in {"page", "bmcr", "x10"}
                    \/ cur.reg \in {"x11", "x12", "x13", "x15", "x16"} /\ page = 4
  PROVE  CommitOf(cur) = {}
<1>1. CASE cur.op = "addr"
  BY <1>1, SMT DEF IsOp, CommitOf
<1>2. CASE cur.reg \in {"page", "bmcr", "x10"}
  BY <1>2, SMT DEF CommitOf
<1>3. CASE cur.reg \in {"x11", "x12", "x13", "x15", "x16"} /\ page = 4
  BY <1>3, SMT DEF CommitOf
<1> QED
  BY <1>1, <1>2, <1>3

(* A write commits what CommitOf says.                                        *)
LEMMA StoreCommits ==
  ASSUME IsOp(cur), cur.op # "read", page \in {0, 1, 4}, Store(cur)
  PROVE  commits' \subseteq commits \cup CommitOf(cur)
<1>1. CASE cur.op = "write" /\ cur.reg = "mmd"
  <2>1. Commit(latch["mmd"], cur.bits)
    BY <1>1, StoreCases
  <2>2. CommitOf(cur) = {<<latch["mmd"], cur.bits>>}
    BY <1>1, SMT DEF CommitOf
  <2> QED
    BY <2>1, <2>2 DEF Commit
<1>2. CASE cur.reg = "x14" /\ page = 4
  <2> DEFINE a == latch["x11"] * 65536 + latch["x12"]
  <2>1. Commit(a, latch["x13"] \cup cur.bits)
    BY <1>2, StoreCases
  <2>2. CommitOf(cur) = {<<a, latch["x13"] \cup cur.bits>>}
    BY <1>2, SMT DEF CommitOf
  <2> HIDE DEF a
  <2> QED
    BY <2>1, <2>2 DEF Commit
<1>3. CASE cur.reg \in {"x11", "x12", "x13", "x14", "x15", "x16"} /\ page # 4
  <2>1. Commit(page, cur.bits)
    BY <1>3, StoreCases
  <2>2. CommitOf(cur) = {<<page, cur.bits>>}
    BY <1>3, SMT DEF CommitOf
  <2> QED
    BY <2>1, <2>2 DEF Commit
<1>4. CASE cur.op = "addr" \/ cur.reg \in {"page", "bmcr", "x10"}
  <2>1. UNCHANGED commits
    BY <1>4, StoreCases DEF phy
  <2> QED
    BY <2>1
<1>5. CASE cur.reg \in {"x11", "x12", "x13", "x15", "x16"} /\ page = 4
  <2>1. UNCHANGED commits
    BY <1>5, StoreCases DEF Latched
  <2> QED
    BY <2>1
<1> QED
  BY <1>1, <1>2, <1>3, <1>4, <1>5 DEF IsOp

(* An operation given up on is harmless wherever its access is.               *)
LEMMA HarmlessNow ==
  ASSUME PhyTypes, Flying, InAccess, cur.op # "read"
  PROVE  Harmless(cur)
<1>1. /\ cur.op = Tr.op /\ cur.reg = Tr.reg /\ cur.arg = Tr.arg /\ cur.bits = Value
      /\ pos = ip /\ Tr = X[ip] /\ ip \in 1 .. Len(X) /\ IsOp(cur) /\ page \in {0, 1, 4}
  BY FlyingOp
<1>2. Plain(X) \subseteq WriteOnly(phyCall)
  BY Grow DEF PhyTypes, Flying
<1>3. ASSUME CommitOf(cur) = {} PROVE Harmless(cur)
  BY <1>3 DEF Harmless
<1>4. ASSUME NEW n \in {0, 7}, Storing(X, n), ip - n \in 1 .. 7,
             Stored(X, n, ip, page, latch, acc)
      PROVE  \/ CommitOf(cur) = {}
             \/ ip = n + 6 /\ CommitOf(cur)
                  = {<<At(X, n), (acc \ X[n + 6].clr) \cup X[n + 6].bits>>}
  <2>1. CASE ip = n + 6
    <3> DEFINE v == (acc \ X[n + 6].clr) \cup X[n + 6].bits
               a == latch["x11"] * 65536 + latch["x12"]
               w == latch["x13"] \cup cur.bits
    <3>1. cur.reg = "x14" /\ cur.op = "write" /\ page = 4 /\ w = v /\ a = At(X, n)
      BY <1>4, <2>1, StoreWord
    <3>2. CommitOf(cur) = {<<a, w>>}
      BY <3>1, SMT DEF CommitOf
    <3> HIDE DEF a, w, v
    <3>3. CommitOf(cur) = {<<At(X, n), v>>}
      BY <3>1, <3>2
    <3> QED
      BY <2>1, <3>3 DEF v
  <2>2. CASE ip \in {n + 1, n + 2, n + 7}
    <3>1. cur.reg \in {"page", "x10"}
      BY <1>1, <1>4, <2>2 DEF Storing, Wrote
    <3> QED
      BY <1>1, <3>1, CommitNone
  <2>3. CASE ip \in {n + 3, n + 4, n + 5}
    <3>1. cur.reg \in {"x11", "x12", "x13"} /\ page = 4
      BY <1>1, <1>4, <2>3 DEF Storing, Wrote, Stored
    <3> QED
      BY <1>1, <3>1, CommitNone
  <2>4. \/ ip = n + 1 \/ ip = n + 2 \/ ip = n + 3 \/ ip = n + 4 \/ ip = n + 5 \/ ip = n + 6
        \/ ip = n + 7
    <3>1. ip \in Int
      BY <1>1
    <3> QED
      BY <1>4, <3>1
  <2> QED
    BY <2>1, <2>2, <2>3, <2>4
<1>5. CASE Writing
  <2>1. Len(X) = 7 /\ Storing(X, 0) /\ X[5].clr = All /\ Stored(X, 0, ip, page, latch, acc)
    BY <1>1, <1>5 DEF Writing, IsWrite
  <2>2. \/ CommitOf(cur) = {}
        \/ CommitOf(cur) = {<<At(X, 0), (acc \ X[6].clr) \cup X[6].bits>>}
    <3>1. 0 \in {0, 7} /\ ip - 0 \in 1 .. 7 /\ 0 + 6 = 6
      BY <1>1, <2>1
    <3> QED
      BY <1>4, <2>1, <3>1
  <2>3. (acc \ X[6].clr) \cup X[6].bits = X[5].bits
    BY <2>1 DEF Storing, PhyTypes, BusTypes
  <2>4. Plain(X) = {<<At(X, 0), X[5].bits>>}
    BY <2>1 DEF Plain
  <2> QED
    BY <1>2, <2>2, <2>3, <2>4 DEF Harmless
<1>6. CASE Modifying
  <2>1. /\ Len(X) = 14 /\ Fetching(X) /\ Storing(X, 7) /\ At(X, 7) \in Readable
        /\ Stored(X, 7, ip, page, latch, acc) /\ Fetched(X, ip, page, latch)
    BY <1>1, <1>6 DEF Modifying, IsModify
  <2>2. CASE ip \in 1 .. 7
    <3>1. ip \in {1, 2, 3, 4, 5, 6, 7}
      BY <2>2
    <3>2. cur.reg \in {"page", "x10"} \/ (cur.reg \in {"x15", "x16"} /\ page = 4)
      BY <1>1, <2>1, <3>1 DEF Fetching, Wrote, Reads, Fetched
    <3> QED
      BY <1>1, <1>3, <3>2, CommitNone
  <2>3. CASE ip \in 8 .. 14
    <3>1. 7 \in {0, 7} /\ ip - 7 \in 1 .. 7
      BY <2>3
    <3>2. CommitOf(cur) = {} \/ \E v : CommitOf(cur) = {<<At(X, 7), v>>}
      BY <1>4, <2>1, <3>1
    <3> QED
      BY <2>1, <3>2 DEF Harmless
  <2> QED
    BY <1>1, <2>1, <2>2, <2>3
<1>7. CASE OnPageOne
  <2>1. IsPageOne(X) /\ (ip = 1 \/ ip = 2 \/ ip = 3) /\ (ip = 2 => page = 1)
    BY <1>1, <1>7 DEF OnPageOne, IsPageOne
  <2>2. CASE ip \in {1, 3}
    <3>1. cur.reg = "page"
      BY <1>1, <2>1, <2>2 DEF IsPageOne, Wrote
    <3> QED
      BY <1>1, <1>3, <3>1, CommitNone
  <2>3. CASE ip = 2
    <3>1. cur.reg = "x14" /\ cur.op = "write" /\ page = 1
      BY <1>1, <2>1, <2>3 DEF IsPageOne, Wrote
    <3>2. cur.bits = X[2].bits
      <4>1. cur.bits = Low((acc \ X[2].clr) \cup X[2].bits)
        BY <1>1, <2>3, <3>1 DEF Value
      <4>2. (acc \ X[2].clr) \cup X[2].bits = X[2].bits
        BY <2>1 DEF IsPageOne, PhyTypes, BusTypes
      <4>3. Low(X[2].bits) = X[2].bits
        BY <2>1 DEF IsPageOne, Low
      <4> QED
        BY <4>1, <4>2, <4>3
    <3>3. CommitOf(cur) = {<<page, cur.bits>>}
      BY <3>1, SMT DEF CommitOf
    <3>4. Plain(X) = {<<1, X[2].bits>>}
      BY <2>1, PageOneEffect
    <3> QED
      BY <1>2, <3>1, <3>2, <3>3, <3>4 DEF Harmless
  <2> QED
    BY <2>1, <2>2, <2>3
<1>8. CASE OnStandard
  <2>1. cur.reg = "bmcr"
    BY <1>1, <1>8 DEF OnStandard, IsStandard, Standard, Wrote
  <2> QED
    BY <1>1, <1>3, <2>1, CommitNone
<1>9. CASE OnMmd
  <2>1. IsMmd(X) /\ Len(X) = 2 /\ (ip = 1 \/ ip = 2) /\ (ip = 2 => latch["mmd"] = 7)
    BY <1>1, <1>9 DEF OnMmd, IsMmd
  <2>2. CASE ip = 1
    <3>1. cur.op = "addr"
      BY <1>1, <2>1, <2>2 DEF IsMmd
    <3> QED
      BY <1>1, <1>3, <3>1, CommitNone
  <2>3. CASE ip = 2
    <3>1. /\ cur.reg = "mmd" /\ cur.op = "write" /\ X[2].bits = {3} /\ X[2].clr = All
          /\ X[2].op = "write" /\ X[2].reg = "mmd"
      BY <1>1, <2>1, <2>3 DEF IsMmd, Reads, Wrote
    <3>2. cur.bits = {3}
      <4>1. cur.bits = (acc \ All) \cup {3}
        BY <1>1, <2>3, <3>1 DEF Value
      <4> QED
        BY <4>1 DEF PhyTypes, BusTypes
    <3>3. CommitOf(cur) = {<<latch["mmd"], cur.bits>>}
      BY <3>1, SMT DEF CommitOf
    <3>4. Plain(X) = {<<7, {3}>>}
      BY <2>1, <3>1 DEF Plain
    <3> QED
      BY <1>2, <2>1, <2>3, <3>2, <3>3, <3>4 DEF Harmless
  <2> QED
    BY <2>1, <2>2, <2>3
<1> QED
  BY <1>5, <1>6, <1>7, <1>8, <1>9 DEF InAccess

-----------------------------------------------------------------------------
(* The invariant is inductive.                                                *)

(* A call begins where nothing is changed yet.                                *)
LEMMA BeginInv ==
  ASSUME PhyTypes, PhyTypes', NEW op \in Ops, Begin(op)
  PROVE  BuckInv'
<1> SUFFICES ASSUME idle0' PROVE Running' /\ InAccess' /\ InFlight'
  BY DEF BuckInv
<1>1. /\ access' = 1 /\ ip' = 1 /\ st' = "issue" /\ commits' = {} /\ buck' = buck
      /\ buck0' = buck /\ fire' = FALSE
  BY DEF Begin, ctl, phy, PhyTypes, BusTypes
<1>2. Running' /\ pos' = 1
  BY <1>1 DEF Running, pos
<1>3. Kind(X', phyCall')
  <2>1. phyCall' \in Calls /\ access' \in 1 .. Len(Prog')
    BY <1>2 DEF PhyTypes, CallTypes
  <2>2. GoodProgram(Program(phyCall'), phyCall')
    BY <2>1, GoodPrograms
  <2> QED
    BY <2>1, <2>2 DEF GoodProgram, Prog, X
<1>4. Clean'
  BY <1>1 DEF Clean
<1>5. DoneBefore'
  <2>1. 1 .. access' - 1 = {}
    BY <1>1
  <2>2. Set(access - 1)' = {} /\ PlainCommits' = {}
    BY <1>1, <2>1 DEF Set, PlainCommits
  <2>3. ASSUME NEW a \in Readable PROVE Old(access - 1, a)' = buck0'[a]
    <3>1. /\ UNION {Mask(Prog'[k], a) : k \in 1 .. access' - 1} = {}
          /\ UNION {Bits(Prog'[k], a) : k \in 1 .. access' - 1} = {}
      BY <2>1
    <3> QED
      BY <3>1 DEF Old
  <2> QED
    BY <1>1, <2>2, <2>3 DEF DoneBefore
<1> QED
  BY <1>1, <1>2, <1>3, <1>4, <1>5, Entry DEF InFlight

(* A step that leaves the driver, the PHY and the operation in flight alone.  *)
LEMMA ElsewhereInv ==
  ASSUME BuckInv, UNCHANGED <<drv, data, fire, cur, page, latch, buck, idle0, buck0, commits>>
  PROVE  BuckInv'
<1> SUFFICES ASSUME idle0 PROVE (IF Running THEN InAccess /\ InFlight ELSE Returned)'
  BY DEF BuckInv
<1>1. UNCHANGED <<phyCall, access, ip, st, acc, phyErr>>
  BY DEF drv
<1>2. /\ X' = X /\ Prog' = Prog /\ (DoneThis' <=> DoneThis) /\ (Clean' <=> Clean)
      /\ (Running' <=> Running)
  BY <1>1, SameDone DEF Clean, Running
<1>3. pos' = pos /\ Tr' = Tr
  BY <1>1, <1>2 DEF pos, Tr
<1>4. CASE Running
  <2>1. InAccess /\ InFlight
    BY <1>4 DEF BuckInv
  <2>2. InAccess'
    BY <1>1, <1>3, <2>1, Frame
  <2>3. InFlight'
    <3>1. Value' = Value
      BY <1>1, <1>3 DEF Value
    <3> QED
      BY <1>1, <1>3, <2>1, <3>1 DEF InFlight
  <2> QED
    BY <1>2, <1>4, <2>2, <2>3
<1>5. CASE ~Running
  <2>1. Returned
    BY <1>5 DEF BuckInv
  <2>2. PlainCommits' = PlainCommits /\ WriteOnly(phyCall)' = WriteOnly(phyCall)
    BY <1>1 DEF PlainCommits, WriteOnly
  <2>3. Harmless(cur)' <=> Harmless(cur)
    BY <2>2 DEF Harmless, CommitOf
  <2> QED
    BY <1>1, <1>2, <1>5, <2>1, <2>2, <2>3 DEF Returned
<1> QED
  BY <1>4, <1>5

(* The driver writes CTRL.                                                    *)
LEMMA FireInv ==
  ASSUME PhyTypes, BuckInv, Fire
  PROVE  BuckInv'
<1> SUFFICES ASSUME idle0 PROVE Running' /\ InAccess' /\ InFlight'
  BY DEF BuckInv, Fire, hist
<1>1. UNCHANGED <<phyCall, access, ip, acc, data, page, latch, buck, buck0, commits>>
  BY DEF Fire, phy, hist
<1>2. Running /\ Running' /\ fire' = TRUE /\ st = "issue" /\ st' = "poll"
  BY DEF Fire, Running, PhyTypes, BusTypes
<1>3. pos' = pos
  BY <1>1, <1>2 DEF pos
<1>4. InAccess /\ InFlight
  BY <1>2 DEF BuckInv
<1>5. Tr' = Tr
  BY <1>1 DEF Tr, Prog
<1>6. Value' = Value
  BY <1>1, <1>5 DEF Value
<1>7. InFlight'
  BY <1>2, <1>4, <1>5, <1>6 DEF InFlight, Fire
<1> QED
  BY <1>1, <1>2, <1>3, <1>4, <1>7, Frame

(* What the driver does with an outcome.                                      *)
LEMMA OutcomeInv ==
  ASSUME PhyTypes, BuckInv, Running, NEW STATE ok, NEW STATE v, Follows(ok, v),
         st \in {"poll", "data"}, ok => ~fire /\ pos = ip + 1 /\ Read(v) = Read(data),
         UNCHANGED <<phyCall, phyCalls, ctl, phy, wire, hist>>
  PROVE  BuckInv'
<1> SUFFICES ASSUME idle0 PROVE (IF Running THEN InAccess /\ InFlight ELSE Returned)'
  BY DEF BuckInv, hist
<1>1. /\ UNCHANGED <<phyCall, data, fire, cur, page, latch, buck, buck0, commits>>
      /\ InAccess /\ InFlight /\ CallTypes
  BY DEF ctl, phy, hist, BuckInv, PhyTypes
<1>2. /\ Kind(X, phyCall) /\ Tr = X[ip] /\ ip \in 1 .. Len(X) /\ access \in 1 .. Len(Prog)
      /\ GoodProgram(Prog, phyCall)
  BY <1>1, Current
<1>3. /\ Tr.then \in {"ignore", "reset", "link", "keep", "join", "gig", "low"} => Tr.op = "read"
      /\ Tr.then \in {"gig", "low"} => Len(X) = 6
      /\ Shape(Tr)
  BY <1>2, OpFacts DEF IsOp
<1>4. fire => cur.op = "read" \/ Flying
  BY <1>1, <1>3 DEF InFlight, Flying
<1>5. fire /\ Tr.op = "read" => cur.op = "read"
  BY <1>4, FlyingOp
<1>6. PlainCommits' \subseteq WriteOnly(phyCall)'
  <2>1. PlainCommits \subseteq WriteOnly(phyCall)
    BY <1>1, InAccessSets
  <2>2. WriteOnly(phyCall)' = WriteOnly(phyCall) /\ PlainCommits' = PlainCommits
    BY <1>1 DEF WriteOnly, PlainCommits
  <2> QED
    BY <2>1, <2>2
<1>7. Tr.then \notin {"must", "keep", "join"} => OnStandard /\ IsStandard(X)
  BY <1>1, Polling DEF OnStandard
<1>8. ASSUME NEW e \in Errors, Return(e) PROVE ~Running' /\ Returned'
  <2>1. fire /\ cur.op # "read" => Harmless(cur)
    BY <1>1, <1>4, HarmlessNow
  <2>2. Harmless(cur)' <=> Harmless(cur)
    BY <1>1 DEF Harmless, CommitOf, WriteOnly
  <2> QED
    BY <1>1, <1>6, <1>8, <2>1, <2>2 DEF Return, Running, Returned, Errors
<1>9. ASSUME Return("nil"), ~fire, access = Len(Prog), pos = Len(X) + 1 \/ IsStandard(X)
      PROVE  ~Running' /\ Returned'
  <2>1. DoneThis /\ Clean
    BY <1>1, <1>9, AccessDone
  <2>2. UNCHANGED access
    BY <1>9 DEF Return
  <2>3. DoneThis' /\ Clean' /\ Prog' = Prog
    BY <1>1, <2>1, <2>2, SameDone DEF Clean
  <2> QED
    BY <1>1, <1>6, <1>9, <2>2, <2>3 DEF Return, Running, Returned
<1>10. CASE \E e \in Errors : Return(e)
  BY <1>8, <1>10
<1>11. CASE Again /\ Tr.then \in {"reset", "link"}
  <2>1. UNCHANGED access /\ ip' = ip /\ st' = "issue"
    BY <1>11 DEF Again
  <2>2. OnStandard
    BY <1>7, <1>11
  <2>3. OnStandard' /\ Tr' = Tr
    BY <1>1, <2>1, <2>2, SameDone DEF OnStandard, MmdOp, Clean, Tr
  <2>4. InFlight'
    BY <1>1, <1>3, <1>5, <1>11, <2>1, <2>3 DEF InFlight
  <2> QED
    BY <2>1, <2>3, <2>4 DEF InAccess, Running
<1>12. CASE Advance /\ (ok \/ Tr.then = "ignore") /\ acc' = Read(v)
  <2>1. acc' = Read(data)
    BY <1>12 DEF Read
  <2>2. pos = ip + 1 \/ Tr.then = "ignore"
    BY <1>12
  <2>3. Tr.then = "ignore" => ip < Len(X) /\ X[ip + 1].then = "link"
    BY <1>2, <1>7 DEF IsStandard, Standard
  <2>4. CASE NextOp
    <3>1. st' = "issue" /\ Running' /\ pos' = ip' /\ UNCHANGED access /\ ip' = ip + 1
      BY <2>4 DEF NextOp, Running, pos
    <3>2. InAccess'
      BY <1>1, <2>1, <2>2, <2>4, <3>1, GoesOn
    <3>3. Tr' = X[ip + 1]
      BY <1>1, <3>1 DEF Tr, X, Prog
    <3>4. InFlight'
      BY <1>1, <1>3, <1>5, <1>12, <2>3, <3>1, <3>3 DEF InFlight
    <3> QED
      BY <3>1, <3>2, <3>4
  <2>5. CASE NextAccess
    <3>1. st' = "issue" /\ Running' /\ pos' = 1 /\ ip = Len(X)
      BY <2>5 DEF NextAccess, Running, pos
    <3>2. ok /\ ~fire /\ pos = Len(X) + 1
      BY <1>2, <1>12, <2>3, <3>1
    <3>3. InAccess'
      BY <1>1, <2>5, <3>1, <3>2, GoesToNext
    <3> QED
      BY <1>1, <3>1, <3>2, <3>3 DEF InFlight
  <2>6. CASE LastDone
    <3>1. ok /\ ~fire /\ pos = Len(X) + 1
      BY <1>2, <1>12, <2>3, <2>6 DEF LastDone
    <3> QED
      BY <1>9, <2>6, <3>1 DEF LastDone
  <2> QED
    BY <1>1, <1>12, <2>4, <2>5, <2>6, AdvanceCases
<1>13. CASE ok /\ Tr.then \in {"gig", "low"} /\ Return("nil")
  <2>1. access = Len(Prog)
    BY <1>2, <1>3, <1>13 DEF GoodProgram, X
  <2> QED
    BY <1>7, <1>9, <1>13, <2>1
<1> QED
  BY <1>10, <1>11, <1>12, <1>13 DEF Follows

(* The operation in flight ends.                                              *)
LEMMA FinishInv ==
  ASSUME PhyTypes, BuckInv, Finish
  PROVE  BuckInv'
<1> SUFFICES ASSUME idle0 PROVE (IF Running THEN InAccess /\ InFlight ELSE Returned)'
  BY DEF BuckInv, Finish
<1>1. /\ UNCHANGED <<phyCall, access, ip, st, acc, phyErr, cur, buck0>>
      /\ fire /\ fire' = FALSE /\ (Running' <=> Running)
  BY DEF Finish, drv, Running
<1>2. CASE Running
  <2>1. InAccess /\ InFlight
    BY <1>2 DEF BuckInv
  <2>2. CASE Flying
    BY <1>1, <1>2, <2>1, <2>2, FinishAccess DEF InFlight
  <2>3. CASE Tr.then \in {"reset", "link"} /\ cur.op = "read"
    <3>1. OnStandard
      BY <1>2, <2>1, <2>3, Polling DEF PhyTypes
    <3>2. OnStandard'
      BY <1>2, <2>3, <3>1, FinishStandard
    <3> QED
      BY <1>1, <1>2, <3>2 DEF InAccess, InFlight
  <2> QED
    BY <1>1, <1>2, <2>1, <2>2, <2>3 DEF InFlight, Flying
<1>3. CASE ~Running
  <2>1. Returned /\ phyErr' # "nil"
    BY <1>1, <1>3 DEF BuckInv, Returned
  <2>2. commits' \subseteq commits \cup (IF cur.op = "read" THEN {} ELSE CommitOf(cur))
    <3>1. CASE cur.op = "read"
      BY <3>1 DEF Finish
    <3>2. CASE cur.op # "read"
      <4>1. Store(cur)
        BY <3>2 DEF Finish
      <4> QED
        BY <3>2, <4>1, StoreCommits DEF PhyTypes, BusTypes, PhyRegs
    <3> QED
      BY <3>1, <3>2
  <2>3. WriteOnly(phyCall)' = WriteOnly(phyCall)
    BY <1>1 DEF WriteOnly
  <2>4. PlainCommits' \subseteq WriteOnly(phyCall)'
    BY <1>1, <2>1, <2>2, <2>3 DEF PlainCommits, Returned, Harmless
  <2> QED
    BY <1>1, <1>3, <2>1, <2>4 DEF Returned
<1> QED
  BY <1>2, <1>3

(* Every step keeps the invariant.                                            *)
LEMMA BuckStep ==
  ASSUME PhyTypes, PhyTypes', BuckInv, [Next]_vars
  PROVE  BuckInv'
<1>1. ASSUME NEW op \in Ops, Begin(op) PROVE BuckInv'
  BY <1>1, BeginInv
<1>2. CASE Fire
  BY <1>2, FireInv
<1>3. CASE Poll
  <2>1. /\ Running /\ st = "poll" /\ UNCHANGED <<phyCall, phyCalls, ctl, phy, wire, hist>>
    BY <1>3 DEF Poll, Running
  <2>2. CASE fire
    <3>1. Follows(FALSE, {})
      BY <1>3, <2>1, <2>2, OutcomeCases DEF Poll, PhyTypes
    <3> QED
      BY <2>1, <3>1, OutcomeInv
  <2>3. CASE ~fire /\ Tr.op # "read"
    <3>1. Follows(TRUE, {})
      BY <1>3, <2>1, <2>3, OutcomeCases DEF Poll, PhyTypes
    <3>2. Tr.then \notin {"keep", "join"}
      BY <2>1, <2>3, Current, OpFacts DEF PhyTypes
    <3>3. pos = ip + 1 /\ Read({}) = Read(data)
      BY <2>1, <2>3, <3>2 DEF pos, Read
    <3> QED
      BY <2>1, <2>3, <3>1, <3>3, OutcomeInv
  <2>4. CASE ~fire /\ st' = "data" /\ UNCHANGED <<access, ip, acc, phyErr, link>>
    <3> SUFFICES ASSUME idle0 PROVE Running' /\ InAccess' /\ InFlight'
      BY <2>1 DEF BuckInv, hist
    <3>1. Running' /\ pos' = pos /\ fire' = FALSE
      BY <2>1, <2>4 DEF Running, pos, ctl, PhyTypes, BusTypes
    <3>2. InAccess'
      BY <2>1, <2>4, <3>1, Frame DEF BuckInv, ctl, phy, hist
    <3> QED
      BY <3>1, <3>2 DEF InFlight
  <2> QED
    BY <1>3, <2>2, <2>3, <2>4 DEF Poll
<1>4. CASE Data
  <2> DEFINE v == IF idle THEN data ELSE {}
  <2>1. /\ Running /\ st = "data" /\ UNCHANGED <<phyCall, phyCalls, ctl, phy, wire, hist>>
        /\ Outcome(idle, v) /\ idle \in BOOLEAN
    BY <1>4 DEF Data, Running, PhyTypes, BusTypes
  <2>2. Follows(idle, v)
    BY <2>1, OutcomeCases DEF PhyTypes
  <2>3. idle => pos = ip + 1 /\ Read(v) = Read(data)
    BY <2>1 DEF pos
  <2>4. CASE idle0
    <3>1. ~fire
      BY <2>1, <2>4 DEF BuckInv, InFlight
    <3> HIDE DEF v
    <3> QED
      BY <2>1, <2>2, <2>3, <3>1, OutcomeInv
  <2> QED
    BY <2>1, <2>4 DEF BuckInv, hist
<1>5. CASE Finish
  BY <1>5, FinishInv
<1>6. CASE Idle \/ ResetDone \/ AutoNegotiated \/ PartnerChange \/ UNCHANGED vars
  <2>1. UNCHANGED <<drv, data, fire, cur, page, latch, buck, idle0, buck0, commits>>
    BY <1>6 DEF Idle, ResetDone, AutoNegotiated, PartnerChange, vars, drv, ctl, phy, wire, hist
  <2> QED
    BY <2>1, ElsewhereInv
<1> QED
  BY <1>1, <1>2, <1>3, <1>4, <1>5, <1>6 DEF Next

(* What the invariant says of a call that has returned.                       *)
LEMMA BuckImplied ==
  ASSUME PhyTypes, BuckInv
  PROVE  BuckExact
<1> DEFINE plain == {c \in commits : c[1] \notin Readable}
<1> SUFFICES ASSUME idle0
             PROVE  /\ plain \subseteq WriteOnly(phyCall)
                    /\ phyErr = "nil" =>
                         /\ plain = WriteOnly(phyCall)
                         /\ \A a \in Readable : buck[a] = ReadBack(phyCall, a)
                         /\ commits # {} /\ phyCall.op # "WriteMMD" => page = 0
  BY DEF BuckExact
<1>1. plain = PlainCommits
  BY DEF PlainCommits
<1>2. PlainCommits \subseteq WriteOnly(phyCall)
  BY InAccessSets DEF BuckInv, Returned, PhyTypes
<1>3. ASSUME phyErr = "nil"
      PROVE  /\ PlainCommits = WriteOnly(phyCall)
             /\ \A a \in Readable : buck[a] = ReadBack(phyCall, a)
             /\ Clean
  <2>1. phyCall \in Calls /\ ~Running
    BY <1>3 DEF PhyTypes, CallTypes
  <2>2. access = Len(Prog) /\ DoneThis /\ Clean
    BY <1>3, <2>1 DEF BuckInv, Returned
  <2>3. GoodProgram(Prog, phyCall)
    BY <2>1, GoodPrograms DEF Prog
  <2>4. /\ Set(access) = WriteOnly(phyCall)
        /\ \A a \in Readable : Old(access, a) = ReadBack(phyCall, a)
    BY <2>2, <2>3 DEF GoodProgram, Set, Old
  <2> QED
    BY <2>2, <2>4 DEF DoneThis
<1> QED
  BY <1>1, <1>2, <1>3 DEF Clean

(* The invariant holds in every run.                                          *)
THEOREM BuckHolds == Spec => []BuckInv
<1>1. Init => BuckInv
  <2> SUFFICES ASSUME Init PROVE BuckInv
    OBVIOUS
  <2>1. ~Running /\ commits = {} /\ ~fire /\ phyErr = "none"
    BY DEF Init, Running
  <2> QED
    BY <2>1 DEF BuckInv, Returned, PlainCommits
<1>2. BuckInv /\ PhyTypes /\ PhyTypes' /\ [Next]_vars => BuckInv'
  BY BuckStep
<1> QED
  BY <1>1, <1>2, TypesHold, PTL DEF Spec

(* A call that starts with the controller idle changes no register of the PHY *)
(* it was not asked to, whatever is given up on and finishes late; returning  *)
(* nil it has changed all of them, and left page 0 (BuckExact).               *)
THEOREM PhyBuckExact == Spec => []BuckExact
<1>1. PhyTypes /\ BuckInv => BuckExact
  BY BuckImplied
<1> QED
  BY <1>1, TypesHold, BuckHolds, PTL

-----------------------------------------------------------------------------
(* WaitLink's link.                                                           *)

(* What a partner advertises.                                                 *)
GigWord(p) == {GigBit(m) + 2 : m \in {x \in p : x.speed = 1000}}
LowWord(p) == {LowBit(m) : m \in {x \in p : x.speed < 1000}}

(* WaitLink at its operation ip: what it has read is what our end advertises  *)
(* and a partner of the call did; having gone on to the slower modes, it has  *)
(* found no faster one.                                                       *)
Negotiating ==
  /\ ip = 3 /\ pos = 4 => data = GBCR
  /\ ip = 4 => acc = GBCR
  /\ ip = 4 /\ pos = 5 => \E p \in seen : data = GigWord(p)
  /\ ip >= 5 => \A p \in seen : seen = {p} => \A m \in own \cap p : m.speed # 1000
  /\ ip = 5 /\ pos = 6 => data = ANAR
  /\ ip = 6 => acc = ANAR
  /\ ip = 6 /\ pos = 7 => \E p \in seen : data = LowWord(p)
BestCommon(m) ==
  /\ \E p \in seen : m \in own \cap p
  /\ \A p \in seen : seen = {p} => \A n \in own \cap p : ~Better(n, m)
LinkInv ==
  phyCall.op = "WaitLink" =>
    /\ partner \in seen /\ seen \subseteq SUBSET LinkModes
    /\ idle0 /\ Running => Negotiating
    /\ idle0 /\ phyErr = "nil" => BestCommon(link)

(* The operations of WaitLink.                                                *)
LEMMA WaitOps ==
  ASSUME CallTypes, Running, phyCall.op = "WaitLink"
  PROVE  /\ X = WaitLink /\ Len(X) = 6 /\ access = 1 /\ Len(Prog) = 1
         /\ Tr = X[ip] /\ ip \in {1, 2, 3, 4, 5, 6}
         /\ X[1] = Rd("bmsr", "ignore") /\ X[2] = Rd("bmsr", "link") /\ X[3] = Rd("gbcr", "keep")
         /\ X[4] = Rd("gbsr", "gig") /\ X[5] = Rd("anar", "keep") /\ X[6] = Rd("anlpar", "low")
<1>1. phyCall \in Calls /\ Tr = X[ip] /\ ip \in 1 .. Len(X) /\ access \in 1 .. Len(Prog)
  BY Current
<1>2. Prog = <<WaitLink>>
  BY <1>1, GoodPrograms DEF Prog
<1>3. Len(Prog) = 1 /\ access = 1 /\ X = WaitLink
  BY <1>1, <1>2 DEF X
<1>4. /\ Len(WaitLink) = 6
      /\ WaitLink[1] = Rd("bmsr", "ignore") /\ WaitLink[2] = Rd("bmsr", "link")
      /\ WaitLink[3] = Rd("gbcr", "keep") /\ WaitLink[4] = Rd("gbsr", "gig")
      /\ WaitLink[5] = Rd("anar", "keep") /\ WaitLink[6] = Rd("anlpar", "low")
  BY DEF WaitLink
<1>5. ip \in {1, 2, 3, 4, 5, 6}
  BY <1>1, <1>3, <1>4
<1> QED
  BY <1>1, <1>3, <1>4, <1>5

(* The modes there are.                                                       *)
LEMMA Modes ==
  /\ LinkModes = {F1000, H1000, F100, H100, F10, H10} /\ NoLink \notin LinkModes
  /\ F1000.speed = 1000 /\ H1000.speed = 1000 /\ F100.speed = 100 /\ H100.speed = 100
  /\ F10.speed = 10 /\ H10.speed = 10
  /\ F1000.full /\ ~H1000.full /\ F100.full /\ ~H100.full /\ F10.full /\ ~H10.full
<1> USE DEF F1000, H1000, F100, H100, F10, H10, M
<1>1. LinkModes = {F1000, H1000, F100, H100, F10, H10}
  <2>1. ASSUME NEW n \in LinkModes PROVE n \in {F1000, H1000, F100, H100, F10, H10}
    <3>1. /\ n.speed = 1000 \/ n.speed = 100 \/ n.speed = 10
          /\ n.full = TRUE \/ n.full = FALSE
          /\ n = [speed |-> n.speed, full |-> n.full]
      BY DEF LinkModes
    <3>2. CASE n.full = TRUE
      BY <3>1, <3>2
    <3>3. CASE n.full = FALSE
      BY <3>1, <3>3
    <3> QED
      BY <3>1, <3>2, <3>3
  <2>2. {F1000, H1000, F100, H100, F10, H10} \subseteq LinkModes
    BY DEF LinkModes
  <2> HIDE DEF F1000, H1000, F100, H100, F10, H10, M
  <2> QED
    BY <2>1, <2>2
<1>2. NoLink \notin LinkModes
  BY DEF LinkModes, NoLink
<1> QED
  BY <1>1, <1>2

(* A mode's bits of the two words are set when both ends do it.               *)
LEMMA GigCommon ==
  ASSUME own \subseteq LinkModes, NEW p, p \subseteq LinkModes, NEW m \in LinkModes, m.speed = 1000
  PROVE  GigBit(m) \in GBCR \cap {b - 2 : b \in GigWord(p)} <=> m \in own \cap p
<1>1. \A n \in LinkModes : n.speed = 1000 /\ GigBit(n) = GigBit(m) => n = m
  BY DEF LinkModes, GigBit
<1>2. \A n \in LinkModes : GigBit(n) \in Int
  BY DEF GigBit
<1>3. GigBit(m) \in GBCR <=> m \in own
  BY <1>1 DEF GBCR
<1>4. GigBit(m) \in {b - 2 : b \in GigWord(p)} <=> m \in p
  <2>1. ASSUME NEW b \in GigWord(p), GigBit(m) = b - 2 PROVE m \in p
    <3>1. PICK n \in p : n.speed = 1000 /\ b = GigBit(n) + 2
      BY DEF GigWord
    <3>2. n \in LinkModes /\ GigBit(n) \in Int
      BY <1>2
    <3>3. GigBit(n) = GigBit(m)
      BY <2>1, <3>1, <3>2
    <3> QED
      BY <1>1, <3>1, <3>2, <3>3
  <2>2. ASSUME m \in p PROVE GigBit(m) \in {b - 2 : b \in GigWord(p)}
    <3> DEFINE b == GigBit(m) + 2
    <3>1. b \in GigWord(p)
      BY <2>2 DEF GigWord
    <3>2. b - 2 = GigBit(m)
      BY <1>2
    <3> HIDE DEF b
    <3> QED
      BY <3>1, <3>2
  <2> QED
    BY <2>1, <2>2
<1> QED
  BY <1>3, <1>4

(* So are those of a slower one.                                              *)
LEMMA LowCommon ==
  ASSUME own \subseteq LinkModes, NEW p, p \subseteq LinkModes, NEW m \in LinkModes, m.speed < 1000
  PROVE  LowBit(m) \in ANAR \cap LowWord(p) <=> m \in own \cap p
<1>1. \A n \in LinkModes : n.speed < 1000 /\ LowBit(n) = LowBit(m) => n = m
  BY DEF LinkModes, LowBit
<1>2. LowBit(m) \in ANAR <=> m \in own
  BY <1>1 DEF ANAR
<1>3. LowBit(m) \in LowWord(p) <=> m \in p
  BY <1>1 DEF LowWord
<1> QED
  BY <1>2, <1>3

(* The first common mode of its order is the best of those of its speeds.     *)
LEMMA FirstIsBest ==
  ASSUME NEW C, C \subseteq LinkModes, NEW f
  PROVE  /\ f = (IF F1000 \in C THEN F1000 ELSE IF H1000 \in C THEN H1000 ELSE NoLink) =>
              IF f = NoLink THEN \A n \in C : n.speed # 1000
              ELSE f \in C /\ \A n \in C : ~Better(n, f)
         /\ f = (IF F100 \in C THEN F100 ELSE IF H100 \in C THEN H100
                 ELSE IF F10 \in C THEN F10 ELSE IF H10 \in C THEN H10 ELSE NoLink) /\ f # NoLink =>
              f \in C /\ ((\A n \in C : n.speed # 1000) => \A n \in C : ~Better(n, f))
<1>1. \A n \in C : n = F1000 \/ n = H1000 \/ n = F100 \/ n = H100 \/ n = F10 \/ n = H10
  BY Modes
<1>2. \A n \in C : ~Better(n, F1000) /\ (F1000 \notin C => ~Better(n, H1000))
  BY <1>1, Modes DEF Better
<1>3. F1000 \notin C /\ H1000 \notin C => \A n \in C : n.speed # 1000
  BY <1>1, Modes
<1>4. ASSUME \A n \in C : n.speed # 1000
      PROVE  \A n \in C : ~Better(n, F100) /\ (F100 \notin C => ~Better(n, H100))
  BY <1>1, <1>4, Modes DEF Better
<1>5. ASSUME \A n \in C : n.speed # 1000, F100 \notin C, H100 \notin C
      PROVE  \A n \in C : ~Better(n, F10) /\ (F10 \notin C => ~Better(n, H10))
  BY <1>1, <1>5, Modes DEF Better
<1>6. F1000 # NoLink /\ H1000 # NoLink
  BY Modes
<1> QED
  BY <1>2, <1>3, <1>4, <1>5, <1>6

(* negotiatedLink's gigabit half finds the best common gigabit mode, or none. *)
LEMMA GigFinds ==
  ASSUME own \subseteq LinkModes, NEW p, p \subseteq LinkModes, acc = GBCR, Gig(GigWord(p))
  PROVE  \/ /\ Return("nil") /\ link' \in own \cap p
            /\ \A n \in own \cap p : ~Better(n, link')
         \/ Advance /\ \A n \in own \cap p : n.speed # 1000
<1> DEFINE S == {x \in Range(GigOrder) : GigBit(x) \in acc \cap {b - 2 : b \in GigWord(p)}}
           f == FirstOf(GigOrder, S)
           C == own \cap p
<1>1. link' = f /\ IF f = NoLink THEN Advance ELSE Return("nil")
  BY DEF Gig
<1>2. F1000 \in Range(GigOrder) /\ H1000 \in Range(GigOrder)
  <2>1. 1 \in DOMAIN GigOrder /\ 2 \in DOMAIN GigOrder /\ GigOrder[1] = F1000 /\ GigOrder[2] = H1000
    BY DEF GigOrder, F1000, H1000
  <2> QED
    BY <2>1, Zenon DEF Range
<1>3. (F1000 \in S <=> F1000 \in C) /\ (H1000 \in S <=> H1000 \in C)
  BY <1>2, Modes, GigCommon
<1>4. f = IF F1000 \in S THEN F1000 ELSE IF H1000 \in S THEN H1000 ELSE NoLink
  BY FirstGig, Zenon
<1> HIDE DEF S, f, C
<1>5. f = IF F1000 \in C THEN F1000 ELSE IF H1000 \in C THEN H1000 ELSE NoLink
  BY <1>3, <1>4
<1>6. IF f = NoLink THEN \A n \in C : n.speed # 1000 ELSE f \in C /\ \A n \in C : ~Better(n, f)
  <2>1. C \subseteq LinkModes
    BY DEF C
  <2> QED
    BY <1>5, <2>1, FirstIsBest
<1> QED
  BY <1>1, <1>6 DEF C

(* Its other half finds the best common mode below, or none.                  *)
LEMMA LowFinds ==
  ASSUME own \subseteq LinkModes, NEW p, p \subseteq LinkModes, acc = ANAR, LowSpeed(LowWord(p))
  PROVE  \/ Return("nolink")
         \/ /\ Return("nil") /\ link' \in own \cap p
            /\ (\A n \in own \cap p : n.speed # 1000) => \A n \in own \cap p : ~Better(n, link')
<1> DEFINE S == {x \in Range(LowOrder) : LowBit(x) \in acc \cap LowWord(p)}
           f == FirstOf(LowOrder, S)
           C == own \cap p
<1>1. link' = f /\ Return(IF f = NoLink THEN "nolink" ELSE "nil")
  BY DEF LowSpeed
<1>2. /\ F100 \in Range(LowOrder) /\ H100 \in Range(LowOrder)
      /\ F10 \in Range(LowOrder) /\ H10 \in Range(LowOrder)
  <2>1. /\ 1 \in DOMAIN LowOrder /\ 2 \in DOMAIN LowOrder
        /\ 3 \in DOMAIN LowOrder /\ 4 \in DOMAIN LowOrder
        /\ LowOrder[1] = F100 /\ LowOrder[2] = H100 /\ LowOrder[3] = F10 /\ LowOrder[4] = H10
    BY DEF LowOrder, F100, H100, F10, H10
  <2> QED
    BY <2>1, Zenon DEF Range
<1>3. /\ (F100 \in S <=> F100 \in C) /\ (H100 \in S <=> H100 \in C)
      /\ (F10 \in S <=> F10 \in C) /\ (H10 \in S <=> H10 \in C)
  BY <1>2, Modes, LowCommon
<1>4. f = IF F100 \in S THEN F100 ELSE IF H100 \in S THEN H100
          ELSE IF F10 \in S THEN F10 ELSE IF H10 \in S THEN H10 ELSE NoLink
  BY FirstLow, Zenon
<1> HIDE DEF S, f, C
<1>5. f = IF F100 \in C THEN F100 ELSE IF H100 \in C THEN H100
          ELSE IF F10 \in C THEN F10 ELSE IF H10 \in C THEN H10 ELSE NoLink
  BY <1>3, <1>4
<1>6. f # NoLink => f \in C /\ ((\A n \in C : n.speed # 1000) => \A n \in C : ~Better(n, f))
  <2>1. C \subseteq LinkModes
    BY DEF C
  <2> QED
    BY <1>5, <2>1, FirstIsBest
<1> QED
  BY <1>1, <1>6 DEF C

(* A step of others: the cable moves to another partner, or stays.            *)
LEMMA LinkFrame ==
  ASSUME LinkInv, UNCHANGED <<phyCall, ip, acc, phyErr, link, data, own, idle0>>,
         Running' <=> Running, pos' = pos, partner' \in SUBSET LinkModes,
         \/ UNCHANGED <<partner, seen>>
         \/ partner' # partner /\ seen' = seen \cup {partner'}
  PROVE  LinkInv'
<1> SUFFICES ASSUME phyCall.op = "WaitLink" PROVE LinkInv'
  BY DEF LinkInv
<1>1. partner \in seen /\ seen \subseteq SUBSET LinkModes
  BY DEF LinkInv
<1>2. /\ partner' \in seen' /\ seen' \subseteq SUBSET LinkModes /\ seen \subseteq seen'
      /\ \A p : seen' = {p} => seen = {p}
  BY <1>1
<1>3. GBCR' = GBCR /\ ANAR' = ANAR
  BY DEF GBCR, ANAR
<1>4. Negotiating => Negotiating'
  BY <1>2, <1>3 DEF Negotiating
<1>5. BestCommon(link) => BestCommon(link)'
  BY <1>2 DEF BestCommon
<1> QED
  BY <1>2, <1>4, <1>5 DEF LinkInv

(* A read ends: it is of the register WaitLink asked for.                     *)
LEMMA LinkFinish ==
  ASSUME PhyTypes, BuckInv, LinkInv, Finish
  PROVE  LinkInv'
<1>1. /\ UNCHANGED <<phyCall, access, ip, st, acc, phyErr, link, own, partner, seen, idle0>>
      /\ fire /\ fire' = FALSE /\ (Running' <=> Running)
  BY DEF Finish, drv, Running
<1> SUFFICES ASSUME phyCall.op = "WaitLink" PROVE LinkInv'
  BY <1>1 DEF LinkInv
<1>2. partner \in seen /\ seen \subseteq SUBSET LinkModes
  BY DEF LinkInv
<1>3. GBCR' = GBCR /\ ANAR' = ANAR
  BY <1>1 DEF GBCR, ANAR
<1>4. BestCommon(link) => BestCommon(link)'
  BY <1>1 DEF BestCommon
<1>5. ASSUME idle0, Running PROVE Negotiating'
  <2>1. /\ X = WaitLink /\ Tr = X[ip] /\ ip \in {1, 2, 3, 4, 5, 6}
        /\ X[1] = Rd("bmsr", "ignore") /\ X[2] = Rd("bmsr", "link") /\ X[3] = Rd("gbcr", "keep")
        /\ X[4] = Rd("gbsr", "gig") /\ X[5] = Rd("anar", "keep") /\ X[6] = Rd("anlpar", "low")
    BY <1>5, WaitOps DEF PhyTypes
  <2>2. Negotiating /\ InFlight
    BY <1>5 DEF LinkInv, BuckInv
  <2>3. CASE ip \in {1, 2}
    BY <1>1, <2>3 DEF Negotiating
  <2>4. CASE ip \in {3, 4, 5, 6}
    <3>1. Tr.op = "read" /\ Tr.then \notin {"reset", "link"}
      BY <2>1, <2>4 DEF Rd
    <3>2. Flying
      BY <1>1, <1>5, <2>2, <3>1 DEF InFlight, Flying
    <3>3. data' = ReadOf(Tr.reg) /\ pos' = ip + 1
      BY <3>1, <3>2, FlyingOp, FinishKeeps
    <3>4. /\ ip = 3 => data' = GBCR
          /\ ip = 4 => data' = GigWord(partner)
          /\ ip = 5 => data' = ANAR
          /\ ip = 6 => data' = LowWord(partner)
      BY <2>1, <3>3 DEF Rd, ReadOf, GBSR, ANLPAR, GigWord, LowWord
    <3> QED
      BY <1>1, <1>2, <1>3, <2>2, <2>4, <3>3, <3>4 DEF Negotiating
  <2> QED
    BY <2>1, <2>3, <2>4
<1> QED
  BY <1>1, <1>2, <1>4, <1>5 DEF LinkInv

(* What WaitLink does with an outcome.                                        *)
LEMMA LinkOutcome ==
  ASSUME PhyTypes, LinkInv, Running, NEW STATE ok, ok \in BOOLEAN, NEW STATE v, Outcome(ok, v),
         ok => pos = ip + 1 /\ v = data,
         UNCHANGED <<phyCall, phyCalls, ctl, phy, wire, hist>>
  PROVE  LinkInv'
<1>1. UNCHANGED <<phyCall, data, fire, own, partner, seen, idle0>>
  BY DEF ctl, wire, hist
<1> SUFFICES ASSUME phyCall.op = "WaitLink", idle0
             PROVE  (Running' => Negotiating') /\ (phyErr' = "nil" => BestCommon(link)')
  BY <1>1 DEF LinkInv
<1>2. Negotiating /\ partner \in seen /\ seen \subseteq SUBSET LinkModes /\ own \subseteq LinkModes
  BY DEF LinkInv, PhyTypes, WireTypes
<1>3. /\ X = WaitLink /\ Len(X) = 6 /\ access = 1 /\ Len(Prog) = 1
      /\ Tr = X[ip] /\ ip \in {1, 2, 3, 4, 5, 6}
      /\ X[1] = Rd("bmsr", "ignore") /\ X[2] = Rd("bmsr", "link") /\ X[3] = Rd("gbcr", "keep")
      /\ X[4] = Rd("gbsr", "gig") /\ X[5] = Rd("anar", "keep") /\ X[6] = Rd("anlpar", "low")
      /\ phyErr = "busy"
  BY WaitOps, Current DEF PhyTypes
<1>4. GBCR' = GBCR /\ ANAR' = ANAR
  BY <1>1 DEF GBCR, ANAR
<1>5. ASSUME NEW e \in Errors, Return(e) PROVE ~Running' /\ phyErr' # "nil"
  BY <1>5 DEF Return, Errors, Running
<1>6. Advance /\ ip < 6 => ip' = ip + 1 /\ st' = "issue" /\ pos' = ip' /\ phyErr' # "nil"
  <2>1. Prog[access] = X
    BY DEF X
  <2> QED
    BY <1>3, <2>1 DEF Advance, pos
<1>7. Follows(ok, v)
  BY OutcomeCases DEF PhyTypes
<1>8. CASE ip \in {1, 2}
  <2>1. Tr.then \in {"ignore", "link"}
    BY <1>3, <1>8 DEF Rd
  <2>2. CASE Again
    BY <1>3, <1>8, <2>2 DEF Again, Negotiating, Running
  <2>3. CASE Advance
    <3>1. ip' \in {2, 3} /\ st' = "issue" /\ pos' = ip' /\ phyErr' # "nil"
      BY <1>6, <1>8, <2>3
    <3> QED
      BY <3>1 DEF Negotiating
  <2> QED
    BY <1>5, <1>7, <2>1, <2>2, <2>3 DEF Follows
<1>9. CASE ~ok /\ ip \in {3, 4, 5, 6}
  <2>1. Tr.then \notin {"ignore", "reset"}
    BY <1>3, <1>9 DEF Rd
  <2>2. Return("timeout")
    BY <1>9, <2>1 DEF Outcome
  <2> QED
    BY <1>5, <2>2 DEF Errors
<1>10. CASE ok /\ ip \in {3, 5}
  <2>1. Tr.then = "keep"
    BY <1>3, <1>10 DEF Rd
  <2>2. acc' = data /\ Advance
    BY <1>10, <2>1 DEF Outcome
  <2>3. ip' = ip + 1 /\ pos' = ip' /\ phyErr' # "nil"
    BY <1>6, <1>10, <2>2
  <2>4. acc' = IF ip = 3 THEN GBCR ELSE ANAR
    BY <1>2, <1>10, <2>2 DEF Negotiating
  <2> QED
    BY <1>1, <1>2, <1>4, <1>10, <2>3, <2>4 DEF Negotiating
<1>11. CASE ok /\ ip = 4
  <2>1. Tr.then = "gig"
    BY <1>3, <1>11 DEF Rd
  <2>2. Gig(data)
    BY <1>11, <2>1 DEF Outcome
  <2>3. PICK p \in seen : data = GigWord(p)
    BY <1>2, <1>11 DEF Negotiating
  <2>4. \/ Return("nil") /\ link' \in own \cap p /\ \A n \in own \cap p : ~Better(n, link')
        \/ Advance /\ \A n \in own \cap p : n.speed # 1000
    <3>1. p \subseteq LinkModes /\ acc = GBCR /\ Gig(GigWord(p))
      BY <1>2, <1>11, <2>2, <2>3 DEF Negotiating
    <3> QED
      BY <1>2, <3>1, GigFinds
  <2>5. CASE Return("nil") /\ link' \in own \cap p /\ \A n \in own \cap p : ~Better(n, link')
    <3>1. BestCommon(link)'
      BY <1>1, <2>5 DEF BestCommon
    <3> QED
      BY <2>5, <3>1 DEF Return, Running
  <2>6. CASE Advance /\ \A n \in own \cap p : n.speed # 1000
    <3>1. ip' = 5 /\ pos' = 5 /\ phyErr' # "nil"
      BY <1>6, <1>11, <2>6
    <3> QED
      BY <1>1, <2>6, <3>1 DEF Negotiating
  <2> QED
    BY <2>4, <2>5, <2>6
<1>12. CASE ok /\ ip = 6
  <2>1. Tr.then = "low"
    BY <1>3, <1>12 DEF Rd
  <2>2. LowSpeed(data)
    BY <1>12, <2>1 DEF Outcome
  <2>3. PICK p \in seen : data = LowWord(p)
    BY <1>2, <1>12 DEF Negotiating
  <2>4. \/ Return("nolink")
        \/ /\ Return("nil") /\ link' \in own \cap p
           /\ (\A n \in own \cap p : n.speed # 1000) => \A n \in own \cap p : ~Better(n, link')
    <3>1. p \subseteq LinkModes /\ acc = ANAR /\ LowSpeed(LowWord(p))
      BY <1>2, <1>12, <2>2, <2>3 DEF Negotiating
    <3> QED
      BY <1>2, <3>1, LowFinds
  <2>5. CASE Return("nolink")
    BY <1>5, <2>5 DEF Errors
  <2>6. CASE /\ Return("nil") /\ link' \in own \cap p
             /\ (\A n \in own \cap p : n.speed # 1000) => \A n \in own \cap p : ~Better(n, link')
    <3>1. seen = {p} => \A n \in own \cap p : n.speed # 1000
      BY <1>2, <1>12 DEF Negotiating
    <3>2. BestCommon(link)'
      BY <1>1, <2>6, <3>1 DEF BestCommon
    <3> QED
      BY <2>6, <3>2 DEF Return, Running
  <2> QED
    BY <2>4, <2>5, <2>6
<1> QED
  BY <1>3, <1>8, <1>9, <1>10, <1>11, <1>12

(* Every step keeps the invariant.                                            *)
LEMMA LinkStep ==
  ASSUME PhyTypes, PhyTypes', BuckInv, LinkInv, [Next]_vars
  PROVE  LinkInv'
<1>1. ASSUME NEW op \in Ops, Begin(op) PROVE LinkInv'
  <2>1. /\ phyCall'.op = op /\ st' = "issue" /\ ip' = 1 /\ phyErr' = "busy"
    BY <1>1 DEF Begin
  <2>2. op = "WaitLink" => partner' \in seen' /\ seen' = {partner'} /\ partner' \subseteq LinkModes
    BY <1>1 DEF Begin, PhyTypes, WireTypes
  <2> QED
    BY <2>1, <2>2 DEF LinkInv, Negotiating
<1>2. CASE Fire
  <2>1. /\ UNCHANGED <<phyCall, ip, acc, phyErr, link, data, own, idle0, partner, seen>>
        /\ Running /\ Running' /\ fire' = TRUE /\ st = "issue" /\ st' = "poll"
    BY <1>2 DEF Fire, wire, hist, Running, PhyTypes, BusTypes
  <2>2. pos' = pos /\ partner' \in SUBSET LinkModes
    BY <2>1 DEF pos, PhyTypes, WireTypes
  <2> QED
    BY <2>1, <2>2, LinkFrame
<1>3. CASE Poll
  <2>1. /\ Running /\ st = "poll" /\ UNCHANGED <<phyCall, phyCalls, ctl, phy, wire, hist>>
        /\ fire \in BOOLEAN
    BY <1>3 DEF Poll, Running, PhyTypes, BusTypes
  <2>2. CASE fire
    BY <1>3, <2>1, <2>2, LinkOutcome DEF Poll
  <2>3. CASE ~fire /\ Tr.op # "read"
    <3>1. phyCall.op # "WaitLink"
      BY <2>1, <2>3, WaitOps DEF PhyTypes, Rd
    <3> QED
      BY <2>1, <3>1 DEF LinkInv
  <2>4. CASE ~fire /\ st' = "data" /\ UNCHANGED <<access, ip, acc, phyErr, link>>
    <3>1. /\ UNCHANGED <<phyCall, data, own, idle0, partner, seen>> /\ Running'
          /\ pos' = pos /\ partner' \in SUBSET LinkModes
      BY <2>1, <2>4 DEF ctl, wire, hist, Running, pos, PhyTypes, WireTypes
    <3> QED
      BY <2>1, <2>4, <3>1, LinkFrame
  <2> QED
    BY <1>3, <2>2, <2>3, <2>4 DEF Poll
<1>4. CASE Data
  <2> DEFINE v == IF idle THEN data ELSE {}
  <2>1. /\ Running /\ st = "data" /\ UNCHANGED <<phyCall, phyCalls, ctl, phy, wire, hist>>
        /\ Outcome(idle, v) /\ idle \in BOOLEAN
    BY <1>4 DEF Data, Running, PhyTypes, BusTypes
  <2>2. idle => pos = ip + 1 /\ v = data
    BY <2>1 DEF pos
  <2> HIDE DEF v
  <2> QED
    BY <2>1, <2>2, LinkOutcome
<1>5. CASE Finish
  BY <1>5, LinkFinish
<1>6. CASE Idle \/ ResetDone \/ AutoNegotiated \/ PartnerChange \/ UNCHANGED vars
  <2>1. /\ UNCHANGED <<phyCall, ip, st, acc, phyErr, link, data, fire, own, idle0>>
    BY <1>6 DEF Idle, ResetDone, AutoNegotiated, PartnerChange, vars, drv, ctl, phy, wire, hist
  <2>2. \/ UNCHANGED <<partner, seen>>
        \/ partner' # partner /\ seen' = seen \cup {partner'}
    BY <1>6 DEF Idle, ResetDone, AutoNegotiated, PartnerChange, vars, wire, hist
  <2>3. partner' \in SUBSET LinkModes /\ (Running' <=> Running) /\ pos' = pos
    BY <2>1 DEF PhyTypes, WireTypes, Running, pos
  <2> QED
    BY <2>1, <2>2, <2>3, LinkFrame
<1> QED
  BY <1>1, <1>2, <1>3, <1>4, <1>5, <1>6 DEF Next

(* The link WaitLink returns is one both ends did during the call, and the    *)
(* best if it had one partner, however the cable moves between its reads      *)
(* (LinkWasCommon).                                                           *)
THEOREM PhyLinkWasCommon == Spec => []LinkWasCommon
<1>1. Init => LinkInv
  BY DEF Init, LinkInv
<1>2. LinkInv /\ BuckInv /\ PhyTypes /\ PhyTypes' /\ [Next]_vars => LinkInv'
  BY LinkStep
<1>3. LinkInv => LinkWasCommon
  BY DEF LinkInv, LinkWasCommon, BestCommon
<1> QED
  BY <1>1, <1>2, <1>3, TypesHold, BuckHolds, PTL DEF Spec
=============================================================================
