------------------------------- MODULE PhyBus -------------------------------
(* hal/mdio (the controller's driver) under hal/an8801r (the Ethernet PHY's). *)
(* A call of the PHY driver is a sequence of accesses, an access one of MDIO  *)
(* operations; each of these may finish in time, or late, when the driver has *)
(* given up on it.  A register's value  *)
(* is the set of its bits.                                                    *)
EXTENDS Integers, Sequences, FiniteSets, SequencesExt

CONSTANTS MaxPhyCalls, MaxFlaps,  \* bounds: calls, and changes of the link partner
          Abilities,               \* what our end may advertise: sets of modes
          Partners                 \* what the other end may advertise

LinkModes == [speed : {10, 100, 1000}, full : BOOLEAN]
ASSUME PhyAssumption ==
  /\ MaxPhyCalls \in Nat /\ MaxFlaps \in Nat
  /\ Abilities \subseteq SUBSET LinkModes /\ Partners \subseteq SUBSET LinkModes

VARIABLES
  phyCall,       \* the call in progress or last returned, and its argument
  access, ip, st,\* its access, the operation in that, and how far that one is
  acc,           \* what the call has read
  phyErr, link,  \* its result
  phyCalls, flaps,
  fire, cur, idle, data,        \* the controller: FIRE, the operation, DATA
  page, latch, buck, bmcr,      \* the PHY: page, paged latches, its registers
  own, partner, andone, dropped,\* its link: both ends, and BMSR's latched drop
  idle0, buck0, commits, seen   \* history: the call's start, what it changed, its partners

drv == <<phyCall, access, ip, st, acc, phyErr, link, phyCalls>>
ctl == <<fire, cur, idle, data>>
phy == <<page, latch, buck, bmcr>>
wire == <<own, partner, andone, dropped, flaps>>
hist == <<idle0, buck0, commits, seen>>
vars == <<drv, ctl, phy, wire, hist>>

-----------------------------------------------------------------------------
(* Link modes and the registers that advertise them (an8801r.go:29-36).       *)
M(s, f) == [speed |-> s, full |-> f]
NoLink == M(0, FALSE)
GigBit(m) == IF m.full THEN 9 ELSE 8
LowBit(m) == (IF m.speed = 100 THEN 7 ELSE 5) + (IF m.full THEN 1 ELSE 0)
GBCR == {GigBit(m) : m \in {x \in own : x.speed = 1000}}
GBSR == {GigBit(m) + 2 : m \in {x \in partner : x.speed = 1000}}
ANAR == {LowBit(m) : m \in {x \in own : x.speed < 1000}}
ANLPAR == {LowBit(m) : m \in {x \in partner : x.speed < 1000}}

(* The analog ("buck") registers that can be read back, and the PHY's id.     *)
Speed == 268456020       \* rgmiiSpeedReg 0x10005054
Gpio == 268435540        \* 0x10000054, and its neighbours 0x10000058, 0x10000070
Readable == {Speed, Gpio, Gpio + 4, Gpio + 28}
PHYID == {31, 30} \cup (16 .. 23) \cup {10, 5, 0}
High(v) == {b \in v : b >= 16}
Low(v) == {b \in v : b < 16}

-----------------------------------------------------------------------------
(* Accesses.  An operation names its register (vendor registers by number) and *)
(* what is done with its outcome: most end the call on an error.              *)
Rd(reg, then) == [op |-> "read", reg |-> reg, arg |-> 0, bits |-> {}, clr |-> {}, then |-> then]
Wr(reg, arg, bits, clr) ==
  [op |-> "write", reg |-> reg, arg |-> arg, bits |-> bits, clr |-> clr, then |-> "must"]
All == 0 .. 31

(* The value written is what was read, less clr, plus bits.                   *)
BuckStore(a, clr, bits) ==
  <<Wr("page", 4, {}, All), Wr("x10", 0, {}, All),
    Wr("x11", a \div 65536, {}, All), Wr("x12", a % 65536, {}, All),
    Wr("x13", 0, bits, clr), Wr("x14", 0, bits, clr), Wr("page", 0, {}, All)>>

buckWrite(a, bits) == BuckStore(a, All, bits)

buckRead(a) ==
  <<Wr("page", 4, {}, All), Wr("x10", 0, {}, All),
    Wr("x15", a \div 65536, {}, All), Wr("x16", a % 65536, {}, All),
    Rd("x17", "keep"), Rd("x18", "join"), Wr("page", 0, {}, All)>>

(* Mutant: the mask is not cleared.                                           *)
ModifyNoClear(a, mask, set) == buckRead(a) \o BuckStore(a, {}, set)

buckModify(a, mask, set) == buckRead(a) \o BuckStore(a, mask, set)

Cl45(mmd, r) == 285212672 + 8388608 + mmd * 262144 + r * 4
cl45Write(mmd, r, bits) == buckWrite(Cl45(mmd, r), bits)

Analog == << <<301467856, {7, 8}>>, <<270647300, {0}>>, <<270991364, 0 .. 5>>,
             <<270991620, 0 .. 7>>, <<270991876, 0 .. 7>>, <<268435876, {0, 1}>> >>
Mmd1e == << <<19, {6, 14}>>, <<216, {4, 12}>>, <<217, {8}>>, <<218, {8}>> >>
Delays == << <<270647332, {24, 2}>>, <<270647340, {24, 4}>> >>

initAnalog ==
  <<cl45Write(31, 1536, {1, 2, 3, 4}), cl45Write(31, 1537, {1}),
    <<Wr("page", 1, {}, All), Wr("x14", 0, {2, 4, 9, 11, 12, 13}, All), Wr("page", 0, {}, All)>> >>
  \o [i \in 1 .. 6 |-> buckWrite(Analog[i][1], Analog[i][2])]
  \o [i \in 1 .. 4 |-> cl45Write(30, Mmd1e[i][1], Mmd1e[i][2])]

configureDelays == [i \in 1 .. 2 |-> buckWrite(Delays[i][1], Delays[i][2])]

ID == <<Rd("id1", "keep"), Rd("id2", "id")>>

reset == <<Wr("bmcr", 0, {15}, All), Rd("bmcr", "reset")>>

RestartAutoNegotiation == <<Rd("bmcr", "keep"), Wr("bmcr", 0, {12, 9}, {})>>

InitRGMIIID ==
  <<ID, reset>> \o initAnalog \o <<cl45Write(7, 60, {})>> \o configureDelays
  \o <<RestartAutoNegotiation>>

WaitLink == <<Rd("bmsr", "ignore"), Rd("bmsr", "link"),
              Rd("gbcr", "keep"), Rd("gbsr", "gig"), Rd("anar", "keep"), Rd("anlpar", "low")>>

(* ledBCR, durations; per LED its events, its GPIO and its select field.      *)
OnEvents == << {15, 0, 1, 2}, {15}, {15, 1, 2} >>
BlinkEvents == << {}, 0 .. 5, 2 .. 5 >>
Select == << {}, {6}, {10} >>
Led == [i \in 1 .. 3 |->
  <<cl45Write(31, 36 + 2 * (i - 1), OnEvents[i]), cl45Write(31, 37 + 2 * (i - 1), BlinkEvents[i]),
    buckModify(Gpio, {i}, {i}), buckModify(Gpio + 4, Select[i], Select[i]),
    buckModify(Gpio + 28, {i}, {})>>]
InitLEDs ==
  <<cl45Write(31, 35, {12}), cl45Write(31, 34, {11}), cl45Write(31, 33, {15, 3})>>
  \o Led[1] \o Led[2] \o Led[3]

(* Other users of the bus: Clause 45, an address phase and then the access.   *)
Mmd(op) == <<[Wr("mmd", 7, {}, All) EXCEPT !.op = "addr"],
             IF op = "ReadMMD" THEN Rd("mmd", "keep") ELSE Wr("mmd", 7, {3}, All)>>

(* A call's accesses.                                                         *)
Program(c) ==
  CASE c.op = "ID" -> <<ID>>
    [] c.op = "InitRGMIIID" -> InitRGMIIID
    [] c.op = "RestartAutoNegotiation" -> <<RestartAutoNegotiation>>
    [] c.op = "WaitLink" -> <<WaitLink>>
    [] c.op = "ApplyLinkSpeed" -> <<buckModify(Speed, {0}, IF c.arg.speed = 1000 THEN {0} ELSE {})>>
    [] c.op = "InitLEDs" -> InitLEDs
    [] OTHER -> <<Mmd(c.op)>>
Ops == {"ID", "InitRGMIIID", "RestartAutoNegotiation", "WaitLink", "ApplyLinkSpeed",
        "InitLEDs", "ReadMMD", "WriteMMD"}

-----------------------------------------------------------------------------
Init ==
  /\ phyCall = [op |-> "none", arg |-> NoLink] /\ access = 0 /\ ip = 0 /\ st = "return"
  /\ acc = {} /\ phyErr = "none" /\ link = NoLink /\ phyCalls = 0 /\ flaps = 0
  /\ fire = FALSE /\ cur = Rd("bmsr", "ignore") /\ idle = TRUE /\ data = {}
  /\ page = 0 /\ latch = [r \in {"x11", "x12", "x13", "x15", "x16", "mmd"} |->
                            IF r = "x13" THEN {} ELSE 0]
  /\ buck = [a \in Readable |-> {0, 1, 24}]
  /\ bmcr = {12} /\ own = {} /\ partner = {}
  /\ andone = FALSE /\ dropped = FALSE
  /\ idle0 = TRUE /\ buck0 = buck /\ commits = {} /\ seen = {}

Prog == Program(phyCall)
Tr == Prog[access][ip]

Begin(op) ==
  /\ st = "return" /\ phyCalls < MaxPhyCalls
  /\ phyCall' = [op |-> op, arg |-> IF op = "ApplyLinkSpeed" THEN link ELSE NoLink]
  /\ link' = IF op = "WaitLink" THEN NoLink ELSE link
  /\ access' = 1 /\ ip' = 1 /\ st' = "issue" /\ acc' = {} /\ phyErr' = "busy"
  /\ phyCalls' = phyCalls + 1
  /\ idle0' = ~fire /\ buck0' = buck /\ commits' = {}
  /\ IF op = "WaitLink"
     THEN /\ own' \in Abilities /\ partner' \in Partners /\ seen' = {partner'}
          /\ andone' \in {FALSE, own' \cap partner' # {}} /\ dropped' \in BOOLEAN
     ELSE own' = {} /\ partner' = {} /\ seen' = {} /\ andone' = FALSE /\ dropped' = FALSE
  /\ UNCHANGED <<ctl, phy, flaps>>

(* Bus.op writes CTRL.  While an operation the driver gave up on is in flight, *)
(* the controller may ignore the write or start over with it.                 *)
Value == LET v == (acc \ Tr.clr) \cup Tr.bits
         IN CASE Tr.reg = "x13" -> High(v) [] Tr.reg = "x14" -> Low(v) [] OTHER -> v

Fire ==
  /\ st = "issue" /\ st' = "poll"
  /\ \/ fire' = TRUE /\ idle' = FALSE /\ cur' = [Tr EXCEPT !.bits = Value]
     \/ fire /\ UNCHANGED <<fire, idle, cur>>
  /\ UNCHANGED <<phyCall, access, ip, acc, phyErr, link, phyCalls, data, phy, wire, hist>>

Return(e) == st' = "return" /\ phyErr' = e /\ UNCHANGED <<access, ip>>
Again == st' = "issue" /\ UNCHANGED <<access, ip, phyErr>>

Advance ==
  IF ip < Len(Prog[access])
  THEN ip' = ip + 1 /\ st' = "issue" /\ UNCHANGED <<access, phyErr>>
  ELSE IF access < Len(Prog)
  THEN access' = access + 1 /\ ip' = 1 /\ st' = "issue" /\ UNCHANGED phyErr
  ELSE Return("nil")
Keep == UNCHANGED <<acc, link>>

(* The modes negotiatedLink looks for, in its order.                          *)
FirstOf(modes, common) ==
  LET hits == {i \in DOMAIN modes : modes[i] \in common}
  IN IF hits = {} THEN NoLink ELSE modes[Min(hits)]
GigOrder == <<M(1000, TRUE), M(1000, FALSE)>>
LowOrder == <<M(100, TRUE), M(100, FALSE), M(10, TRUE), M(10, FALSE)>>

Gig(v) ==
  LET m == FirstOf(GigOrder, {x \in Range(GigOrder) : GigBit(x) \in acc \cap {b - 2 : b \in v}})
  IN /\ UNCHANGED acc /\ link' = m
     /\ IF m = NoLink THEN Advance ELSE Return("nil")

(* Mutant: the partner's word alone decides.                                  *)
PartnerDecides(v) ==
  LET m == FirstOf(LowOrder, {x \in Range(LowOrder) : LowBit(x) \in v})
  IN /\ UNCHANGED acc /\ link' = m
     /\ Return(IF m = NoLink THEN "nolink" ELSE "nil")

LowSpeed(v) ==
  LET m == FirstOf(LowOrder, {x \in Range(LowOrder) : LowBit(x) \in acc \cap v})
  IN /\ UNCHANGED acc /\ link' = m
     /\ Return(IF m = NoLink THEN "nolink" ELSE "nil")

(* What the call does with an operation's outcome.  The polls of reset and of *)
(* WaitLink end at a deadline; reset's goes on after an error.                *)
Outcome(ok, v) ==
  CASE Tr.then = "ignore" -> Keep /\ (Advance \/ Return("timeout"))
    [] Tr.then = "reset" -> Keep /\ IF ok /\ 15 \notin v THEN Advance
                                    ELSE Again \/ Return("timeout")
    [] ~ok /\ Tr.then \notin {"ignore", "reset"} -> Keep /\ Return("timeout")
    [] ok /\ Tr.then = "must" -> Keep /\ Advance
    [] ok /\ Tr.then = "keep" -> acc' = v /\ UNCHANGED link /\ Advance
    [] ok /\ Tr.then = "join" -> acc' = acc \cup v /\ UNCHANGED link /\ Advance
    [] ok /\ Tr.then = "id" -> /\ Keep
                               /\ IF phyCall.op = "ID" \/ acc \cup v = PHYID
                                  THEN Advance ELSE Return("badid")
    [] ok /\ Tr.then = "link" -> Keep /\ IF {2, 5} \subseteq v THEN Advance
                                         ELSE Again \/ Return("timeout")
    [] ok /\ Tr.then = "gig" -> Gig(v)
    [] ok /\ Tr.then = "low" -> LowSpeed(v)

(* Bus.op's poll of FIRE, and Bus.data's of IDLE: 1000 reads each.            *)
Poll ==
  /\ st = "poll"
  /\ IF fire THEN Outcome(FALSE, {})
     ELSE IF Tr.op = "read" THEN st' = "data" /\ UNCHANGED <<access, ip, acc, phyErr, link>>
     ELSE Outcome(TRUE, {})
  /\ UNCHANGED <<phyCall, phyCalls, ctl, phy, wire, hist>>

Data ==
  /\ st = "data"
  /\ Outcome(idle, IF idle THEN data ELSE {})
  /\ UNCHANGED <<phyCall, phyCalls, ctl, phy, wire, hist>>

-----------------------------------------------------------------------------
(* The PHY.  Registers 0x10 up are paged, the standard ones are on every page. *)
Commit(a, v) ==
  /\ commits' = commits \cup {<<a, v>>}
  /\ buck' = IF a \in Readable THEN [buck EXCEPT ![a] = v] ELSE buck

BuckAt(hi, lo) == LET a == hi * 65536 + lo IN IF a \in Readable THEN buck[a] ELSE {}

ReadOf(reg) ==
  CASE reg = "id1" -> High(PHYID) [] reg = "id2" -> Low(PHYID) [] reg = "bmcr" -> bmcr
    [] reg = "bmsr" -> IF ~andone THEN {} ELSE IF dropped THEN {5} ELSE {2, 5}
    [] reg = "gbcr" -> GBCR [] reg = "gbsr" -> GBSR
    [] reg = "anar" -> ANAR [] reg = "anlpar" -> ANLPAR
    [] reg = "x17" -> IF page = 4 THEN High(BuckAt(latch["x15"], latch["x16"])) ELSE {}
    [] reg = "x18" -> IF page = 4 THEN Low(BuckAt(latch["x15"], latch["x16"])) ELSE {}
    [] OTHER -> {}

Store(c) ==
  CASE c.reg = "page" -> page' = c.arg /\ UNCHANGED <<latch, buck, bmcr, commits>>
    [] c.reg = "bmcr" -> /\ bmcr' = c.bits \ {9}
                         /\ UNCHANGED <<page, latch, buck, commits>>
    [] c.op = "addr" -> /\ latch' = [latch EXCEPT !["mmd"] = c.arg]
                        /\ UNCHANGED <<page, buck, bmcr, commits>>
    [] c.op = "write" /\ c.reg = "mmd" ->
         Commit(latch["mmd"], c.bits) /\ UNCHANGED <<page, latch, bmcr>>
    [] c.reg \in {"x11", "x12", "x13", "x15", "x16"} /\ page = 4 ->
         /\ latch' = [latch EXCEPT ![c.reg] = IF c.reg = "x13" THEN c.bits ELSE c.arg]
         /\ UNCHANGED <<page, buck, bmcr, commits>>
    [] c.reg = "x14" /\ page = 4 ->
         /\ Commit(latch["x11"] * 65536 + latch["x12"], latch["x13"] \cup c.bits)
         /\ UNCHANGED <<page, latch, bmcr>>
    [] c.reg \in {"x11", "x12", "x13", "x14", "x15", "x16"} /\ page # 4 ->
         Commit(page, c.bits) /\ UNCHANGED <<page, latch, bmcr>>
    [] c.reg = "x10" -> UNCHANGED <<phy, commits>>

(* The operation in flight ends, in time or not; a read's data may trail FIRE. *)
Finish ==
  /\ fire /\ fire' = FALSE
  /\ IF cur.op = "read"
     THEN /\ data' = ReadOf(cur.reg) /\ idle' \in BOOLEAN
          /\ dropped' = (dropped /\ cur.reg # "bmsr")
          /\ UNCHANGED <<phy, commits>>
     ELSE idle' = TRUE /\ UNCHANGED <<data, dropped>> /\ Store(cur)
  /\ UNCHANGED <<drv, cur, own, partner, andone, flaps, idle0, buck0, seen>>

Idle ==
  /\ ~fire /\ ~idle /\ idle' = TRUE
  /\ UNCHANGED <<drv, fire, cur, data, phy, wire, hist>>

ResetDone ==
  /\ 15 \in bmcr /\ bmcr' = {12}
  /\ UNCHANGED <<drv, ctl, page, latch, buck, wire, hist>>

AutoNegotiated ==
  /\ phyCall.op = "WaitLink" /\ ~andone /\ own \cap partner # {} /\ andone' = TRUE
  /\ UNCHANGED <<drv, ctl, phy, own, partner, dropped, flaps, hist>>

(* The cable goes to another partner.  Only WaitLink looks at the link: its   *)
(* state is chosen when that call begins, and moves while it runs.            *)
PartnerChange ==
  /\ phyCall.op = "WaitLink" /\ flaps < MaxFlaps /\ flaps' = flaps + 1
  /\ partner' \in Partners \ {partner} /\ seen' = seen \cup {partner'}
  /\ andone' = FALSE /\ dropped' = TRUE
  /\ UNCHANGED <<drv, ctl, phy, own, idle0, buck0, commits>>

Next ==
  \/ \E op \in Ops : Begin(op)
  \/ Fire \/ Poll \/ Data \/ Finish \/ Idle \/ ResetDone \/ AutoNegotiated \/ PartnerChange

Spec == Init /\ [][Next]_vars

-----------------------------------------------------------------------------
TypeOK ==
  /\ phyCall.op \in Ops \cup {"none"} /\ st \in {"issue", "poll", "data", "return"}
  /\ st # "return" => access \in 1 .. Len(Prog) /\ ip \in 1 .. Len(Prog[access])
  /\ acc \subseteq All /\ data \subseteq All
  /\ phyErr \in {"none", "busy", "nil", "timeout", "badid", "nolink"}
  /\ page \in {0, 1, 4} /\ buck \in [Readable -> SUBSET All]
  /\ phyCalls \in 0 .. MaxPhyCalls /\ flaps \in 0 .. MaxFlaps

(* What a call is for: the write-only registers it sets, the others' new value. *)
WriteOnly(c) ==
  CASE c.op = "InitRGMIIID" ->
         {Analog[i] : i \in 1 .. 6} \cup {Delays[i] : i \in 1 .. 2}
         \cup {<<Cl45(30, Mmd1e[i][1]), Mmd1e[i][2]>> : i \in 1 .. 4}
         \cup {<<Cl45(31, 1536), 1 .. 4>>, <<Cl45(31, 1537), {1}>>, <<Cl45(7, 60), {}>>,
               <<1, {2, 4, 9, 11, 12, 13}>>}
    [] c.op = "InitLEDs" ->
         {<<Cl45(31, 33), {3, 15}>>, <<Cl45(31, 34), {11}>>, <<Cl45(31, 35), {12}>>}
         \cup {<<Cl45(31, 36 + 2 * i), OnEvents[i + 1]>> : i \in 0 .. 2}
         \cup {<<Cl45(31, 37 + 2 * i), BlinkEvents[i + 1]>> : i \in 0 .. 2}
    [] c.op = "WriteMMD" -> {<<7, {3}>>}
    [] OTHER -> {}
ReadBack(c, a) ==
  CASE c.op = "ApplyLinkSpeed" /\ a = Speed ->
         IF c.arg.speed = 1000 THEN buck0[a] \cup {0} ELSE buck0[a] \ {0}
    [] c.op = "InitLEDs" /\ a = Gpio -> buck0[a] \cup {1, 2, 3}
    [] c.op = "InitLEDs" /\ a = Gpio + 4 -> buck0[a] \cup {6, 10}
    [] c.op = "InitLEDs" /\ a = Gpio + 28 -> buck0[a] \ {1, 2, 3}
    [] OTHER -> buck0[a]

(* A call that starts with the controller idle changes no PHY register it was *)
(* not asked to, even when one of its operations is given up on and finishes  *)
(* later; when it returns nil every register has its value, the bits that were *)
(* not its own are as they were, and the page is back at 0.                   *)
BuckExact ==
  idle0 =>
    LET plain == {c \in commits : c[1] \notin Readable} IN
    /\ plain \subseteq WriteOnly(phyCall)
    /\ phyErr = "nil" => /\ plain = WriteOnly(phyCall)
                         /\ \A a \in Readable : buck[a] = ReadBack(phyCall, a)
                         /\ commits # {} /\ phyCall.op # "WriteMMD" => page = 0

(* The link WaitLink returns is one both ends could do during the call, and   *)
(* the best one if it had a single partner.                                   *)
Better(m, n) == m.speed > n.speed \/ (m.speed = n.speed /\ m.full /\ ~n.full)
LinkWasCommon ==
  idle0 /\ phyCall.op = "WaitLink" /\ phyErr = "nil" =>
    /\ \E p \in seen : link \in own \cap p
    /\ \A p \in seen : seen = {p} => \A m \in own \cap p : ~Better(m, link)
=============================================================================
