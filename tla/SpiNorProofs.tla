---------------------------- MODULE SpiNorProofs ----------------------------
(* Proofs about SpiNor, for every geometry, every number of goroutines and     *)
(* every set of arguments: the inductive invariant Inv, and from it the type   *)
(* invariant, the exclusive use of the bus, the truth of what calls report and *)
(* the containment of every change in the range of the call that made it.      *)
EXTENDS SpiNor, TLAPS

InCommand(p) == pc[p] \in {"assert", "clock", "restore", "reply"}
Sent(p) == pc[p] \in {"restore", "reply"}

(* Which operation a goroutine can be in, by its program counter and stage.    *)
ShapeOf(p) ==
  /\ pc[p] \in {"clock", "restore"} => saved[p] = "auto"
  /\ pc[p] \in {"idle", "lock"} => n[p] = 0 /\ dst[p] = <<>>
  /\ pc[p] = "return" /\ err[p] = "range" => n[p] = 0 /\ ~Valid(call[p])
  /\ pc[p] \notin {"idle"} => call[p] \in Call
  /\ pc[p] = "lock" \/ InsideLock(p) => Valid(call[p])
  /\ InCommand(p) =>
       \/ stage[p] = "rdid" /\ call[p].kind = "id"
       \/ /\ stage[p] \in {"wren", "rdsr", "issue", "poll"}
          /\ \/ call[p].kind = "erase"
             \/ call[p].kind = "write" /\ n[p] < call[p].len
  /\ pc[p] = "window" => call[p].kind = "read" /\ n[p] <= call[p].len

(* What the command in progress, or just finished, was for.                    *)
Applied(p) ==
  IF call[p].kind = "erase"
  THEN \A x \in Target(call[p]) : chip.mem[x] = {}
  ELSE \A x \in Cells :
         ( /\ call[p].addr + n[p] <= x
           /\ x < call[p].addr + n[p] + Chunk(call[p], n[p]) )
             => call[p].data \in chip.mem[x]

(* WriteAt's first n bytes are in flash.                                       *)
Progress(p) ==
  call[p].kind = "write" =>
    \A x \in Cells : (call[p].addr <= x /\ x < call[p].addr + n[p])
                        => call[p].data \in chip.mem[x]

(* The chip follows the driver's view of it, in a call that found it idle.     *)
TracksOf(p) ==
  clean[p] /\ InsideLock(p) =>
    /\ Progress(p)
    /\ InCommand(p) /\ stage[p] \in {"wren", "rdsr"} => ~Busy(chip)
    /\ InCommand(p) /\ stage[p] = "wren" /\ Sent(p) => chip.wel
    /\ InCommand(p) /\ stage[p] = "rdsr" => chip.wel /\ (Sent(p) => "WEL" \in rx[p])
    /\ InCommand(p) /\ stage[p] = "issue" /\ ~Sent(p) => ~Busy(chip) /\ chip.wel
    /\ InCommand(p) /\ (stage[p] = "poll" \/ (stage[p] = "issue" /\ Sent(p)))
         => IF Busy(chip) THEN chip.op = Issued(p) ELSE Applied(p)
    /\ InCommand(p) /\ stage[p] = "poll" /\ Sent(p) /\ "WIP" \notin rx[p]
         => ~Busy(chip)
    /\ pc[p] = "window" => ~Busy(chip)
    /\ pc[p] = "return" =>
         /\ err[p] \in {"nil", "timeout"}
         /\ Busy(chip) /\ call[p].kind = "write" => chip.op.kind = "program"
         /\ err[p] = "nil" /\ call[p].kind # "id" => ~Busy(chip)
         /\ err[p] = "nil" /\ call[p].kind = "write" => n[p] = call[p].len
         /\ err[p] = "nil" /\ call[p].kind = "erase" => Applied(p)

(* The chip's operation stays inside the range of the call that issued it.     *)
Contained == Busy(chip) => cause \in Call /\ chip.op.cells \subseteq Target(cause)

Shape == \A p \in Procs : ShapeOf(p)
Tracks == \A p \in Procs : TracksOf(p)

Inv == TypeOK /\ BusExclusive /\ Shape /\ Tracks /\ Contained

-----------------------------------------------------------------------------
(* Arithmetic of pages and blocks.                                             *)

(* Division leaves a remainder below the divisor (the page offset of WriteAt). *)
LEMMA Remainder ==
  ASSUME NEW m \in Nat \ {0}, NEW a \in Nat
  PROVE  /\ a % m \in 0 .. m - 1
         /\ a \div m \in Nat
         /\ a = ((a \div m) * m) + (a % m)
  BY SMT

(* A number is its own remainder below the divisor.                            *)
LEMMA SmallRemainder ==
  ASSUME NEW m \in Nat \ {0}, NEW r \in 0 .. m - 1
  PROVE  r % m = r
  BY SMT

(* A quotient is determined by any division with remainder.                    *)
LEMMA Quotient ==
  ASSUME NEW m \in Nat \ {0}, NEW a \in Nat, NEW q \in Int,
         NEW r \in 0 .. m - 1, a = (q * m) + r
  PROVE  a \div m = q
  BY SMT

(* A page program that ends inside its page does not wrap: it touches exactly  *)
(* the k cells from a on (WriteAt's chunking).                                 *)
LEMMA ProgramCellsExact ==
  ASSUME NEW a \in Nat, NEW k \in Nat, k <= PageSize - (a % PageSize)
  PROVE  ProgramCells(a, k) = {x \in Cells : a <= x /\ x < a + k}
<1>1. PageSize \in Nat \ {0}
  BY GeometryAssumption
<1>2. /\ a % PageSize \in 0 .. PageSize - 1
      /\ a \div PageSize \in Nat
      /\ a = ((a \div PageSize) * PageSize) + (a % PageSize)
  BY <1>1, Remainder
<1>3. ASSUME NEW i \in 0 .. k - 1
      PROVE  (a \div PageSize) * PageSize + (((a % PageSize) + i) % PageSize) = a + i
  <2>1. (a % PageSize) + i \in 0 .. PageSize - 1
    BY <1>1, <1>2
  <2>2. ((a % PageSize) + i) % PageSize = (a % PageSize) + i
    BY <1>1, <2>1, SmallRemainder
  <2> DEFINE base == (a \div PageSize) * PageSize
             off == a % PageSize
  <2>3. base \in Int /\ off \in Int /\ a = base + off
    BY <1>1, <1>2
  <2>4. ((a % PageSize) + i) % PageSize = off + i
    BY <2>2
  <2> HIDE DEF base, off
  <2>5. base + (off + i) = a + i
    BY <2>3
  <2> QED
    BY <2>4, <2>5 DEF base
<1>4. ASSUME NEW x \in Cells
      PROVE  (\E i \in 0 .. k - 1 :
                x = (a \div PageSize) * PageSize + (((a % PageSize) + i) % PageSize))
               <=> (a <= x /\ x < a + k)
  <2>1. x \in Int
    BY DEF Cells
  <2>2. ASSUME a <= x, x < a + k
        PROVE  \E i \in 0 .. k - 1 :
                 x = (a \div PageSize) * PageSize
                       + (((a % PageSize) + i) % PageSize)
    <3>1. x - a \in 0 .. k - 1 /\ a + (x - a) = x
      BY <2>1, <2>2
    <3> QED
      BY <3>1, <1>3
  <2>3. ASSUME NEW i \in 0 .. k - 1, x = a + i
        PROVE  a <= x /\ x < a + k
    BY <2>3
  <2> QED
    BY <2>2, <2>3, <1>3
<1> QED
  BY <1>4 DEF ProgramCells

(* The block of an aligned address is the EraseSize cells from it on           *)
(* (EraseBlock's alignment check).                                             *)
LEMMA EraseCellsExact ==
  ASSUME NEW a \in Nat, a % EraseSize = 0
  PROVE  EraseCells(a) = {x \in Cells : a <= x /\ x < a + EraseSize}
<1>1. EraseSize \in Nat \ {0}
  BY GeometryAssumption
<1>2. a \div EraseSize \in Nat /\ a = (a \div EraseSize) * EraseSize
  <2>1. a = ((a \div EraseSize) * EraseSize) + (a % EraseSize)
        /\ a \div EraseSize \in Nat
    BY <1>1, Remainder
  <2>2. (a \div EraseSize) * EraseSize \in Int
    BY <1>1, <2>1
  <2> QED
    BY <2>1, <2>2
<1>3. ASSUME NEW x \in Cells
      PROVE  x \div EraseSize = a \div EraseSize <=> (a <= x /\ x < a + EraseSize)
  <2> DEFINE q == a \div EraseSize
             p == x \div EraseSize
             r == x % EraseSize
  <2>1. x \in Nat
    BY GeometryAssumption DEF Cells
  <2>2. r \in 0 .. EraseSize - 1 /\ p \in Nat /\ x = (p * EraseSize) + r
    BY <1>1, <2>1, Remainder
  <2>3. q \in Nat /\ a = q * EraseSize
    BY <1>2
  <2>4. ASSUME a <= x, x < a + EraseSize
        PROVE  p = q
    <3>1. x - a \in 0 .. EraseSize - 1 /\ x = (q * EraseSize) + (x - a)
      BY <1>1, <2>1, <2>3, <2>4
    <3>2. q \in Int
      BY <2>3
    <3> HIDE DEF q
    <3>3. x \div EraseSize = q
      BY <1>1, <2>1, <3>1, <3>2, Quotient
    <3> QED
      BY <3>3
  <2>5. ASSUME p = q
        PROVE  a <= x /\ x < a + EraseSize
    <3>1. x = a + r
      BY <2>2, <2>3, <2>5
    <3> QED
      BY <1>1, <2>2, <3>1
  <2> QED
    BY <2>4, <2>5
<1> QED
  BY <1>3 DEF EraseCells

(* A chunk of WriteAt is not empty, fits the buffer and ends inside its page.  *)
LEMMA ChunkFits ==
  ASSUME NEW c \in WriteAt, NEW k \in Nat, c.addr >= 0, k < c.len
  PROVE  /\ Chunk(c, k) \in 1 .. (c.len - k)
         /\ Chunk(c, k) <= PageSize - ((c.addr + k) % PageSize)
<1>1. c.addr \in Nat /\ c.len \in Nat
  <2>1. c.addr \in Addrs /\ c.len \in Lens
    BY DEF WriteAt
  <2>2. c.addr \in Int /\ c.len \in Nat
    BY <2>1, CallerAssumption
  <2> QED
    BY <2>2
<1>2. (c.addr + k) % PageSize \in 0 .. PageSize - 1
  <2>1. c.addr + k \in Nat /\ PageSize \in Nat \ {0}
    BY <1>1, GeometryAssumption
  <2> QED
    BY <2>1, Remainder
<1>3. PageSize \in Nat \ {0}
  BY GeometryAssumption
<1> DEFINE off == (c.addr + k) % PageSize
<1>4. off \in 0 .. PageSize - 1
  BY <1>2
<1>5. Chunk(c, k) = SmallerOf(PageSize - off, c.len - k)
  BY DEF Chunk
<1> HIDE DEF off
<1>6. /\ Chunk(c, k) \in 1 .. (c.len - k)
      /\ Chunk(c, k) <= PageSize - off
  BY <1>1, <1>3, <1>4, <1>5 DEF SmallerOf
<1> QED
  BY <1>6 DEF off

-----------------------------------------------------------------------------
(* Types of calls and of the chip.                                             *)

(* A call's fields have the types of its kind.                                 *)
LEMMA CallFields ==
  ASSUME NEW c \in Call
  PROVE  /\ c.kind = "write" => c \in WriteAt
         /\ c.kind = "read" => c \in ReadAt
         /\ c.kind = "erase" => c \in EraseBlock
  BY DEF Call, ReadID, ReadAt, WriteAt, EraseBlock

(* The argument types of each kind, from the assumption on callers.            *)
LEMMA ArgumentTypes ==
  ASSUME NEW c \in Call
  PROVE  /\ c.kind = "write" => c.addr \in Int /\ c.len \in Nat /\ c.data \in Data
         /\ c.kind = "read" => c.addr \in Int /\ c.len \in Nat
         /\ c.kind = "erase" => c.addr \in Int
<1>1. CASE c.kind = "write"
  <2>1. c.addr \in Addrs /\ c.len \in Lens /\ c.data \in Data
    BY <1>1, CallFields DEF WriteAt
  <2> QED
    BY <1>1, <2>1, CallerAssumption
<1>2. CASE c.kind = "read"
  <2>1. c.addr \in Addrs /\ c.len \in Lens
    BY <1>2, CallFields DEF ReadAt
  <2> QED
    BY <1>2, <2>1, CallerAssumption
<1>3. CASE c.kind = "erase"
  <2>1. c.addr \in Addrs
    BY <1>3, CallFields DEF EraseBlock
  <2> QED
    BY <1>3, <2>1, CallerAssumption
<1> QED
  BY <1>1, <1>2, <1>3

(* What a goroutine in a program or erase Command puts on the bus: an          *)
(* operation of the chip, on exactly the cells it is meant for.                *)
LEMMA IssuedExact ==
  ASSUME NEW p \in Procs, TypeOK, call[p] \in Call, Valid(call[p]),
         call[p].kind = "erase" \/ (call[p].kind = "write" /\ n[p] < call[p].len)
  PROVE  /\ Issued(p) \in Op
         /\ Issued(p).cells \subseteq Target(call[p])
         /\ call[p].kind = "erase" =>
              Issued(p) = [kind |-> "erase", cells |-> Target(call[p])]
         /\ call[p].kind = "write" =>
              /\ Chunk(call[p], n[p]) \in 1 .. (call[p].len - n[p])
              /\ Issued(p) = [kind |-> "program",
                              cells |-> {x \in Cells :
                                 /\ call[p].addr + n[p] <= x
                                 /\ x < call[p].addr + n[p] + Chunk(call[p], n[p])},
                              data |-> call[p].data]
<1>1. CASE call[p].kind = "erase"
  <2>1. call[p].addr \in Int
    BY <1>1, ArgumentTypes
  <2>2. call[p].addr \in Nat /\ call[p].addr % EraseSize = 0
    BY <1>1, <2>1 DEF Valid, EraseAligned
  <2>3. EraseCells(call[p].addr) = Target(call[p])
    BY <1>1, <2>2, EraseCellsExact DEF Target
  <2>4. Issued(p) = [kind |-> "erase", cells |-> Target(call[p])]
    BY <1>1, <2>3 DEF Issued, EraseOp
  <2>5. Target(call[p]) \in SUBSET Cells
    BY <1>1 DEF Target
  <2> QED
    BY <1>1, <2>4, <2>5 DEF Op
<1>2. CASE call[p].kind = "write" /\ n[p] < call[p].len
  <2> DEFINE c == call[p]
             a == c.addr + n[p]
             k == Chunk(c, n[p])
  <2>1. /\ c \in WriteAt /\ c.addr \in Int /\ c.len \in Nat /\ c.data \in Data
        /\ n[p] \in Nat
    BY <1>2, CallFields, ArgumentTypes DEF TypeOK
  <2>2. c.addr \in Nat /\ c.addr + c.len <= Size
    BY <1>2, <2>1 DEF Valid, InRange
  <2>3. k \in 1 .. (c.len - n[p]) /\ k <= PageSize - (a % PageSize)
    BY <1>2, <2>1, <2>2, ChunkFits
  <2>4. a \in Nat /\ k \in Nat
    BY <2>1, <2>2, <2>3
  <2> HIDE DEF k
  <2>5. ProgramCells(a, k) = {x \in Cells : a <= x /\ x < a + k}
    BY <2>3, <2>4, ProgramCellsExact
  <2>6. Issued(p) = [kind |-> "program",
                     cells |-> {x \in Cells : a <= x /\ x < a + k},
                     data |-> c.data]
    BY <1>2, <2>5 DEF Issued, ProgramOp, k
  <2>7. {x \in Cells : a <= x /\ x < a + k} \subseteq Target(c)
    <3>1. a >= c.addr /\ a + k <= c.addr + c.len
      BY <2>1, <2>2, <2>3
    <3>2. Target(c) = {x \in Cells : c.addr <= x /\ x < c.addr + c.len}
      BY <1>2 DEF Target
    <3> QED
      BY <2>1, <2>2, <2>4, <3>1, <3>2 DEF Cells
  <2>8. Issued(p) \in Op
    BY <2>1, <2>6 DEF Op
  <2> QED
    BY <1>2, <2>3, <2>6, <2>7, <2>8 DEF k
<1> QED
  BY <1>1, <1>2

-----------------------------------------------------------------------------
(* The chip's operators keep its type.                                         *)
LEMMA ChipTypes ==
  ASSUME chip \in ChipType
  PROVE  /\ WriteEnabled(chip) \in ChipType
         /\ \A op \in Op : Started(chip, op) \in ChipType
         /\ Busy(chip) => Finished(chip) \in ChipType
<1>1. WriteEnabled(chip) \in ChipType
  BY DEF ChipType, WriteEnabled
<1>2. ASSUME NEW op \in Op
      PROVE  Started(chip, op) \in ChipType
  BY DEF ChipType, Started
<1>3. ASSUME Busy(chip)
      PROVE  Finished(chip) \in ChipType
  <2>1. chip.mem \in [Cells -> Cell] /\ chip.op \in Op
    BY <1>3 DEF ChipType, Busy
  <2>2. chip.op.kind # "erase" => chip.op.data \in Data
    BY <2>1 DEF Op
  <2>3. ASSUME NEW x \in Cells
        PROVE  (IF x \notin chip.op.cells THEN chip.mem[x]
                ELSE IF chip.op.kind = "erase" THEN {}
                ELSE chip.mem[x] \cup {chip.op.data}) \in Cell
    BY <2>1, <2>2 DEF Cell
  <2>4. Apply(chip.mem, chip.op) \in [Cells -> Cell]
    BY <2>3 DEF Apply
  <2> QED
    BY <2>4 DEF Finished, ChipType
<1> QED
  BY <1>1, <1>2, <1>3

(* Every step keeps the types; WriteAt's counter stays a length because a      *)
(* chunk is never negative.                                                    *)
LEMMA TypeStep ==
  ASSUME TypeOK, Shape, [Next]_vars
  PROVE  TypeOK'
<1> USE DEF TypeOK
<1>1. ASSUME NEW p \in Procs, NEW c \in Call, Enter(p, c)
      PROVE  TypeOK'
  BY <1>1 DEF Enter, PCs, Errors
<1>2. ASSUME NEW p \in Procs, Lock(p)
      PROVE  TypeOK'
  <2>1. pc[p] = "lock" /\ call[p] \in Call
    BY <1>2 DEF Lock, Shape, ShapeOf
  <2>2. call[p].kind \in {"id", "read", "write", "erase"}
    BY <2>1 DEF Call, ReadID, ReadAt, WriteAt, EraseBlock
  <2>3. /\ pc' \in [Procs -> PCs] /\ stage' \in [Procs -> Stages]
        /\ err' \in [Procs -> Errors]
    <3>1. CASE call[p].kind = "id"
      BY <1>2, <3>1 DEF Lock, Run, PCs, Stages
    <3>2. CASE call[p].kind = "read"
      BY <1>2, <3>2 DEF Lock, PCs
    <3>3. CASE call[p].kind = "write"
      BY <1>2, <3>3 DEF Lock, NextPage, Run, Finish, PCs, Stages, Errors
    <3>4. CASE call[p].kind = "erase"
      BY <1>2, <3>4 DEF Lock, Run, PCs, Stages
    <3> QED
      BY <2>2, <3>1, <3>2, <3>3, <3>4
  <2>4. mu' \in Procs \cup {NoProc} /\ clean' \in [Procs -> BOOLEAN]
    BY <1>2 DEF Lock, Busy
  <2> QED
    BY <1>2, <2>3, <2>4 DEF Lock
<1>3. ASSUME NEW p \in Procs, Return(p)
      PROVE  TypeOK'
  <2>1. mu' \in Procs \cup {NoProc}
    BY <1>3 DEF Return
  <2>2. dst' \in [Procs -> Seq(Cell \cup {Junk})]
    BY <1>3 DEF Return
  <2> QED
    BY <1>3, <2>1, <2>2 DEF Return, PCs, Stages, Errors
<1>4. ASSUME NEW p \in Procs, AssertCE(p)
      PROVE  TypeOK'
  BY <1>4 DEF AssertCE, PCs
<1>5. ASSUME NEW p \in Procs, Clock(p)
      PROVE  TypeOK'
  <2>1. call[p] \in Call /\ InCommand(p) /\ Valid(call[p])
    BY <1>5 DEF Clock, Shape, ShapeOf, InCommand, InsideLock
  <2>2. stage[p] = "issue" => Issued(p) \in Op
    BY <2>1, IssuedExact DEF Shape, ShapeOf
  <2>3. Effect(p) \in ChipType
    BY <2>2, ChipTypes DEF Effect
  <2>4. Reply(p) \subseteq {"WIP", "WEL", "ID"}
    BY DEF Reply, StatusBits, IdReply
  <2>5. /\ chip' \in {chip, Effect(p)}
        /\ rx' \in {[rx EXCEPT ![p] = Reply(p)], [rx EXCEPT ![p] = {}]}
    BY <1>5 DEF Clock
  <2>6. chip' \in ChipType
    BY <2>3, <2>5
  <2>7. rx' \in [Procs -> SUBSET {"WIP", "WEL", "ID"}]
    BY <2>4, <2>5
  <2>8. cause' \in Call \cup {NoCall} /\ pc' \in [Procs -> PCs]
    BY <1>5, <2>1 DEF Clock, PCs
  <2> QED
    BY <1>5, <2>6, <2>7, <2>8 DEF Clock
<1>6. ASSUME NEW p \in Procs, RestoreCE(p)
      PROVE  TypeOK'
  BY <1>6 DEF RestoreCE, PCs
<1>7. ASSUME NEW p \in Procs, GotID(p)
      PROVE  TypeOK'
  BY <1>7 DEF GotID, Finish, KeepBus, PCs, Errors
<1>8. ASSUME NEW p \in Procs, SentWREN(p)
      PROVE  TypeOK'
  BY <1>8 DEF SentWREN, Run, KeepBus, PCs, Stages
<1>9. ASSUME NEW p \in Procs, CheckLatch(p)
      PROVE  TypeOK'
  BY <1>9 DEF CheckLatch, Run, Finish, KeepBus, PCs, Stages, Errors
<1>10. ASSUME NEW p \in Procs, StartPolling(p)
       PROVE  TypeOK'
  BY <1>10 DEF StartPolling, Run, KeepBus, PCs, Stages
<1>11. ASSUME NEW p \in Procs, PollReady(p)
       PROVE  TypeOK'
  <2>1. /\ call[p] \in Call /\ Valid(call[p])
        /\ call[p].kind = "erase"
             \/ (call[p].kind = "write" /\ n[p] < call[p].len)
    BY <1>11 DEF PollReady, Replied, Shape, ShapeOf, InCommand, InsideLock
  <2>2. call[p].kind = "write" => Chunk(call[p], n[p]) \in Nat
    <3>1. call[p].kind = "write" =>
            Chunk(call[p], n[p]) \in 1 .. (call[p].len - n[p])
      BY <2>1, IssuedExact
    <3> QED
      BY <3>1
  <2>3. n' \in [Procs -> Nat]
    <3>1. CASE call[p].kind = "erase"
      BY <1>11, <3>1 DEF PollReady, Finish
    <3>2. CASE call[p].kind = "write"
      <4>1. n[p] + Chunk(call[p], n[p]) \in Nat
        BY <2>2, <3>2
      <4>2. n' = [n EXCEPT ![p] = n[p] + Chunk(call[p], n[p])]
        BY <1>11, <3>2 DEF PollReady
      <4> QED
        BY <4>1, <4>2
    <3> QED
      BY <2>1, <3>1, <3>2
  <2>4. /\ pc' \in [Procs -> PCs] /\ stage' \in [Procs -> Stages]
        /\ err' \in [Procs -> Errors]
    BY <1>11 DEF PollReady, NextPage, Run, Finish, PCs, Stages, Errors
  <2> QED
    BY <1>11, <2>3, <2>4 DEF PollReady, KeepBus
<1>12. ASSUME NEW p \in Procs, PollAgain(p)
       PROVE  TypeOK'
  BY <1>12 DEF PollAgain, Run, KeepBus, PCs, Stages
<1>13. ASSUME NEW p \in Procs, PollTimeout(p)
       PROVE  TypeOK'
  BY <1>13 DEF PollTimeout, Finish, KeepBus, PCs, Errors
<1>14. ASSUME NEW p \in Procs, ReadByte(p)
       PROVE  TypeOK'
  <2>1. WindowByte(call[p].addr + n[p]) \in Cell \cup {Junk}
    BY DEF WindowByte, ChipType
  <2>2. dst' \in [Procs -> Seq(Cell \cup {Junk})]
    BY <1>14, <2>1 DEF ReadByte
  <2>3. n' \in [Procs -> Nat]
    BY <1>14 DEF ReadByte
  <2> QED
    BY <1>14, <2>2, <2>3 DEF ReadByte
<1>15. ASSUME NEW p \in Procs, ReadDone(p)
       PROVE  TypeOK'
  BY <1>15 DEF ReadDone, Finish, KeepBus, PCs, Errors
<1>16. ASSUME NEW p \in Procs, DeadlinePasses(p)
       PROVE  TypeOK'
  BY <1>16 DEF DeadlinePasses
<1>17. CASE ChipFinish
  BY <1>17, ChipTypes DEF ChipFinish, driverVars
<1>18. CASE UNCHANGED vars
  BY <1>18 DEF vars, driverVars
<1> QED
  BY <1>1, <1>2, <1>3, <1>4, <1>5, <1>6, <1>7, <1>8, <1>9, <1>10, <1>11, <1>12,
     <1>13, <1>14, <1>15, <1>16, <1>17, <1>18 DEF Next, Step

-----------------------------------------------------------------------------
(* The mutex and the bus.                                                      *)

(* While one goroutine is inside its critical section no other is.             *)
LEMMA Alone ==
  ASSUME TypeOK, BusExclusive, NEW p \in Procs, NEW q \in Procs, q # p,
         InsideLock(p)
  PROVE  mu = p /\ ~InsideLock(q)
  BY DEF BusExclusive

(* A step inside the critical section that leaves mutex and bus alone, and     *)
(* goes on to a Command or to the return, keeps both exclusive.                *)
LEMMA QuietStep ==
  ASSUME TypeOK, BusExclusive, NEW p \in Procs, InsideLock(p),
         pc[p] \notin {"clock", "restore"},
         pc' \in [Procs -> PCs], err' \in [Procs -> Errors],
         \A q \in Procs : q # p => pc'[q] = pc[q] /\ err'[q] = err[q],
         pc'[p] \notin {"clock", "restore"},
         UNCHANGED <<mu, ctl>>
  PROVE  BusExclusive'
<1>1. mu = p
  BY DEF BusExclusive
<1>2. ASSUME NEW q \in Procs, InsideLock(q)'
      PROVE  mu' = q
  <2>1. CASE q = p
    BY <1>1, <2>1
  <2>2. CASE q # p
    BY <1>2, <2>2 DEF InsideLock, BusExclusive
  <2> QED
    BY <2>1, <2>2
<1>3. ctl' = "auto" <=> ~ \E q \in Procs : pc'[q] \in {"clock", "restore"}
  BY DEF BusExclusive
<1> QED
  BY <1>2, <1>3 DEF BusExclusive

(* Every step keeps the operations exclusive and, between Commands, the chip   *)
(* select in auto-read mode.                                                   *)
LEMMA BusStep ==
  ASSUME TypeOK, BusExclusive, Shape, [Next]_vars
  PROVE  BusExclusive'
<1> USE DEF TypeOK
<1>1. ASSUME NEW p \in Procs, NEW c \in Call, Enter(p, c)
      PROVE  BusExclusive'
  BY <1>1 DEF Enter, BusExclusive, InsideLock, Errors
<1>2. ASSUME NEW p \in Procs, Lock(p)
      PROVE  BusExclusive'
  <2>1. \A q \in Procs : ~InsideLock(q)
    BY <1>2, CallerAssumption DEF Lock, BusExclusive
  <2>2. pc[p] = "lock" /\ call[p] \in Call
    BY <1>2 DEF Lock, Shape, ShapeOf
  <2>3. call[p].kind \in {"id", "read", "write", "erase"}
    BY <2>2 DEF Call, ReadID, ReadAt, WriteAt, EraseBlock
  <2>4. /\ pc'[p] \in {"assert", "window", "return"}
        /\ \A q \in Procs : q # p => pc'[q] = pc[q] /\ err'[q] = err[q]
        /\ mu' = p /\ ctl' = ctl
    <3>1. CASE call[p].kind = "id"
      BY <1>2, <3>1 DEF Lock, Run
    <3>2. CASE call[p].kind = "read"
      BY <1>2, <3>2 DEF Lock
    <3>3. CASE call[p].kind = "write"
      BY <1>2, <3>3 DEF Lock, NextPage, Run, Finish
    <3>4. CASE call[p].kind = "erase"
      BY <1>2, <3>4 DEF Lock, Run
    <3> QED
      BY <2>3, <3>1, <3>2, <3>3, <3>4
  <2> QED
    BY <2>1, <2>2, <2>4 DEF BusExclusive, InsideLock
<1>3. ASSUME NEW p \in Procs, Return(p)
      PROVE  BusExclusive'
  <2>1. pc[p] = "return"
    BY <1>3 DEF Return
  <2>2. ASSUME NEW q \in Procs, InsideLock(q)'
        PROVE  mu' = q
    <3>1. q # p /\ pc'[q] = pc[q] /\ err'[q] = err[q]
      BY <1>3, <2>2 DEF Return, InsideLock
    <3>2. mu = q
      BY <2>2, <3>1 DEF InsideLock, BusExclusive
    <3> QED
      BY <1>3, <3>1, <3>2 DEF Return
  <2>3. ctl' = "auto" <=> ~ \E q \in Procs : pc'[q] \in {"clock", "restore"}
    BY <1>3, <2>1 DEF Return, BusExclusive
  <2> QED
    BY <2>2, <2>3 DEF BusExclusive
<1>4. ASSUME NEW p \in Procs, AssertCE(p)
      PROVE  BusExclusive'
  BY <1>4 DEF AssertCE, BusExclusive, InsideLock
<1>5. ASSUME NEW p \in Procs, Clock(p)
      PROVE  BusExclusive'
  BY <1>5 DEF Clock, BusExclusive, InsideLock
<1>6. ASSUME NEW p \in Procs, RestoreCE(p)
      PROVE  BusExclusive'
  <2>1. pc[p] = "restore" /\ saved[p] = "auto" /\ mu = p
    BY <1>6 DEF RestoreCE, Shape, ShapeOf, BusExclusive, InsideLock
  <2>2. \A q \in Procs : q # p => ~InsideLock(q)
    BY <2>1 DEF BusExclusive
  <2>3. /\ ctl' = "auto" /\ mu' = p /\ pc'[p] = "reply"
        /\ \A q \in Procs : q # p => pc'[q] = pc[q] /\ err'[q] = err[q]
    BY <1>6, <2>1 DEF RestoreCE
  <2> QED
    BY <2>2, <2>3 DEF BusExclusive, InsideLock
<1>7. ASSUME NEW p \in Procs,
             \/ GotID(p) \/ SentWREN(p) \/ CheckLatch(p) \/ StartPolling(p)
             \/ PollReady(p) \/ PollAgain(p) \/ PollTimeout(p)
      PROVE  BusExclusive'
  <2>1. pc[p] = "reply" /\ InsideLock(p)
    BY <1>7 DEF GotID, SentWREN, CheckLatch, StartPolling, PollReady, PollAgain,
                PollTimeout, Replied, InsideLock
  <2>2. /\ pc'[p] \in {"assert", "return"}
        /\ \A q \in Procs : q # p => pc'[q] = pc[q] /\ err'[q] = err[q]
        /\ UNCHANGED <<mu, ctl>>
    BY <1>7 DEF GotID, SentWREN, CheckLatch, StartPolling, PollReady, PollAgain,
                PollTimeout, Replied, Run, Finish, NextPage, KeepBus
  <2>3. pc' \in [Procs -> PCs] /\ err' \in [Procs -> Errors]
    BY <1>7, TypeStep DEF Next, Step
  <2> QED
    BY <2>1, <2>2, <2>3, QuietStep
<1>8. ASSUME NEW p \in Procs, ReadByte(p) \/ ReadDone(p)
      PROVE  BusExclusive'
  <2>1. pc[p] = "window" /\ InsideLock(p)
    BY <1>8 DEF ReadByte, ReadDone, InsideLock
  <2>2. /\ pc'[p] \in {"window", "return"}
        /\ \A q \in Procs : q # p => pc'[q] = pc[q] /\ err'[q] = err[q]
        /\ UNCHANGED <<mu, ctl>>
    BY <1>8 DEF ReadByte, ReadDone, Finish, KeepBus
  <2>3. pc' \in [Procs -> PCs] /\ err' \in [Procs -> Errors]
    BY <1>8, TypeStep DEF Next, Step
  <2> QED
    BY <2>1, <2>2, <2>3, QuietStep
<1>9. ASSUME NEW p \in Procs, DeadlinePasses(p)
      PROVE  BusExclusive'
  BY <1>9 DEF DeadlinePasses, BusExclusive, InsideLock
<1>10. CASE ChipFinish
  BY <1>10 DEF ChipFinish, driverVars, BusExclusive, InsideLock
<1>11. CASE UNCHANGED vars
  BY <1>11 DEF vars, driverVars, BusExclusive, InsideLock
<1> QED
  BY <1>1, <1>2, <1>3, <1>4, <1>5, <1>6, <1>7, <1>8, <1>9, <1>10, <1>11
     DEF Next, Step

-----------------------------------------------------------------------------
(* The shape of each goroutine's control state.                                *)

(* A step of p leaves the other goroutines' local state as it was.             *)
Untouched(q) ==
  /\ pc'[q] = pc[q] /\ call'[q] = call[q] /\ stage'[q] = stage[q]
  /\ n'[q] = n[q] /\ err'[q] = err[q] /\ rx'[q] = rx[q]
  /\ saved'[q] = saved[q] /\ dst'[q] = dst[q] /\ clean'[q] = clean[q]

(* Then only p's shape has to be shown again.                                  *)
LEMMA ShapeFrame ==
  ASSUME Shape, NEW p \in Procs, ShapeOf(p)',
         \A q \in Procs : q # p => Untouched(q)
  PROVE  Shape'
<1>1. ASSUME NEW q \in Procs, q # p
      PROVE  ShapeOf(q)'
  <2>1. ShapeOf(q) /\ Untouched(q)
    BY <1>1 DEF Shape
  <2> QED
    BY <2>1 DEF ShapeOf, Untouched, InsideLock, InCommand
<1> QED
  BY <1>1 DEF Shape

(* Steps of one goroutine touch its own local state only.                      *)
LEMMA StepFrame ==
  ASSUME TypeOK, Shape, NEW p \in Procs, Step(p)
  PROVE  \A q \in Procs : q # p => Untouched(q)
<1> USE DEF TypeOK, Untouched
<1>1. CASE Lock(p)
  <2>1. UNCHANGED <<call, n, rx, saved, dst>>
    BY <1>1 DEF Lock
  <2>2. \A q \in Procs : q # p => clean'[q] = clean[q]
    BY <1>1 DEF Lock
  <2>3. \A q \in Procs : q # p =>
          pc'[q] = pc[q] /\ stage'[q] = stage[q] /\ err'[q] = err[q]
    <3>1. CASE call[p].kind = "id"
      BY <1>1, <3>1 DEF Lock, Run
    <3>2. CASE call[p].kind = "read"
      BY <1>1, <3>2 DEF Lock
    <3>3. CASE call[p].kind = "write"
      BY <1>1, <3>3 DEF Lock, NextPage, Run, Finish
    <3>4. CASE call[p].kind = "erase"
      BY <1>1, <3>4 DEF Lock, Run
    <3>5. call[p].kind \in {"id", "read", "write", "erase"}
      BY <1>1 DEF Lock, Shape, ShapeOf, Call, ReadID, ReadAt, WriteAt, EraseBlock
    <3> QED
      BY <3>1, <3>2, <3>3, <3>4, <3>5
  <2> QED
    BY <2>1, <2>2, <2>3
<1>2. CASE Return(p)
  BY <1>2 DEF Return
<1>3. CASE AssertCE(p)
  BY <1>3 DEF AssertCE
<1>4. CASE Clock(p)
  BY <1>4 DEF Clock
<1>5. CASE RestoreCE(p)
  BY <1>5 DEF RestoreCE
<1>6. CASE GotID(p) \/ SentWREN(p) \/ CheckLatch(p) \/ StartPolling(p)
  BY <1>6 DEF GotID, SentWREN, CheckLatch, StartPolling, Run, Finish, KeepBus
<1>7. CASE PollReady(p)
  BY <1>7 DEF PollReady, NextPage, Run, Finish, KeepBus
<1>8. CASE PollAgain(p) \/ PollTimeout(p)
  BY <1>8 DEF PollAgain, PollTimeout, Run, Finish, KeepBus
<1>9. CASE ReadByte(p) \/ ReadDone(p)
  BY <1>9 DEF ReadByte, ReadDone, Finish, KeepBus
<1> QED
  BY <1>1, <1>2, <1>3, <1>4, <1>5, <1>6, <1>7, <1>8, <1>9 DEF Step

(* Every step keeps the shape: a Command belongs to the operation and stage    *)
(* the code runs it for.                                                       *)
LEMMA ShapeStep ==
  ASSUME TypeOK, BusExclusive, Shape, [Next]_vars
  PROVE  Shape'
<1> USE DEF TypeOK
<1>1. ASSUME NEW p \in Procs, NEW c \in Call, Enter(p, c)
      PROVE  Shape'
  <2>1. ShapeOf(p)'
    BY <1>1 DEF Enter, Shape, ShapeOf, InsideLock, InCommand
  <2>2. \A q \in Procs : q # p => Untouched(q)
    BY <1>1 DEF Enter, Untouched
  <2> QED
    BY <2>1, <2>2, ShapeFrame
<1>2. ASSUME NEW p \in Procs, Step(p), ShapeOf(p)'
      PROVE  Shape'
  BY <1>2, StepFrame, ShapeFrame
<1>3. ASSUME NEW p \in Procs, Lock(p)
      PROVE  ShapeOf(p)'
  <2>1. ShapeOf(p) /\ pc[p] = "lock" /\ n[p] = 0 /\ call[p] \in Call /\ Valid(call[p])
    BY <1>3 DEF Lock, Shape, ShapeOf
  <2>2. call[p].kind \in {"id", "read", "write", "erase"}
    BY <2>1 DEF Call, ReadID, ReadAt, WriteAt, EraseBlock
  <2>3. UNCHANGED <<call, n, saved, dst>>
    BY <1>3 DEF Lock
  <2>4. CASE call[p].kind = "id"
    BY <1>3, <2>1, <2>3, <2>4 DEF Lock, Run, ShapeOf, InsideLock, InCommand
  <2>5. CASE call[p].kind = "read"
    <3>1. call[p].len \in Nat
      BY <2>1, <2>5, ArgumentTypes
    <3> QED
      BY <1>3, <2>1, <2>3, <2>5, <3>1 DEF Lock, ShapeOf, InsideLock, InCommand
  <2>6. CASE call[p].kind = "write"
    <3>1. CASE 0 < call[p].len
      BY <1>3, <2>1, <2>3, <2>6, <3>1
         DEF Lock, NextPage, Run, ShapeOf, InsideLock, InCommand
    <3>2. CASE ~(0 < call[p].len)
      BY <1>3, <2>1, <2>3, <2>6, <3>2
         DEF Lock, NextPage, Finish, ShapeOf, InsideLock, InCommand
    <3> QED
      BY <3>1, <3>2
  <2>7. CASE call[p].kind = "erase"
    BY <1>3, <2>1, <2>3, <2>7 DEF Lock, Run, ShapeOf, InsideLock, InCommand
  <2> QED
    BY <2>2, <2>4, <2>5, <2>6, <2>7
<1>4. ASSUME NEW p \in Procs, Return(p)
      PROVE  ShapeOf(p)'
  BY <1>4 DEF Return, ShapeOf, InsideLock, InCommand
<1>5. ASSUME NEW p \in Procs, AssertCE(p)
      PROVE  ShapeOf(p)'
  <2>1. ctl = "auto"
    <3>1. \A q \in Procs : InsideLock(q) => mu = q
      BY DEF BusExclusive
    <3>2. InsideLock(p) /\ pc[p] = "assert"
      BY <1>5 DEF AssertCE, InsideLock
    <3>3. \A q \in Procs : pc[q] \in {"clock", "restore"} => q = p
      BY <3>1, <3>2 DEF InsideLock
    <3> QED
      BY <3>2, <3>3 DEF BusExclusive
  <2> QED
    BY <1>5, <2>1 DEF AssertCE, Shape, ShapeOf, InsideLock, InCommand
<1>6. ASSUME NEW p \in Procs, Clock(p)
      PROVE  ShapeOf(p)'
  BY <1>6 DEF Clock, Shape, ShapeOf, InsideLock, InCommand
<1>7. ASSUME NEW p \in Procs, RestoreCE(p)
      PROVE  ShapeOf(p)'
  BY <1>7 DEF RestoreCE, Shape, ShapeOf, InsideLock, InCommand
<1>8. ASSUME NEW p \in Procs, GotID(p) \/ PollTimeout(p)
      PROVE  ShapeOf(p)'
  BY <1>8 DEF GotID, PollTimeout, Replied, Finish, KeepBus, Shape, ShapeOf,
              InsideLock, InCommand
<1>9. ASSUME NEW p \in Procs, SentWREN(p) \/ StartPolling(p) \/ PollAgain(p)
      PROVE  ShapeOf(p)'
  BY <1>9 DEF SentWREN, StartPolling, PollAgain, Replied, Run, KeepBus, Shape,
              ShapeOf, InsideLock, InCommand
<1>10. ASSUME NEW p \in Procs, CheckLatch(p)
       PROVE  ShapeOf(p)'
  BY <1>10 DEF CheckLatch, Replied, Run, Finish, KeepBus, Shape, ShapeOf,
               InsideLock, InCommand
<1>11. ASSUME NEW p \in Procs, PollReady(p)
       PROVE  ShapeOf(p)'
  <2>1. /\ pc[p] = "reply" /\ stage[p] = "poll" /\ ShapeOf(p)
        /\ call[p] \in Call /\ Valid(call[p])
        /\ UNCHANGED <<call, saved, dst>>
    BY <1>11 DEF PollReady, Replied, KeepBus, Shape, ShapeOf, InsideLock, InCommand
  <2>2. CASE call[p].kind = "erase"
    BY <1>11, <2>1, <2>2 DEF PollReady, Finish, ShapeOf, InsideLock, InCommand
  <2>3. CASE call[p].kind # "erase"
    <3> DEFINE done == n[p] + Chunk(call[p], n[p])
    <3>1. call[p].kind = "write" /\ n' = [n EXCEPT ![p] = done] /\ NextPage(p, done)
      BY <1>11, <2>1, <2>3 DEF PollReady, ShapeOf, InCommand
    <3> HIDE DEF done
    <3>2. CASE done < call[p].len
      BY <2>1, <3>1, <3>2 DEF NextPage, Run, ShapeOf, InsideLock, InCommand
    <3>3. CASE ~(done < call[p].len)
      BY <2>1, <3>1, <3>3 DEF NextPage, Finish, ShapeOf, InsideLock, InCommand
    <3> QED
      BY <3>2, <3>3
  <2> QED
    BY <2>2, <2>3
<1>12. ASSUME NEW p \in Procs, ReadByte(p)
       PROVE  ShapeOf(p)'
  <2>1. call[p] \in Call /\ call[p].kind = "read" /\ n[p] < call[p].len
    BY <1>12 DEF ReadByte, Shape, ShapeOf
  <2>2. call[p].len \in Nat /\ n[p] \in Nat
    BY <2>1, ArgumentTypes
  <2>3. n[p] + 1 <= call[p].len
    BY <2>1, <2>2
  <2> QED
    BY <1>12, <2>3 DEF ReadByte, Shape, ShapeOf, InsideLock, InCommand
<1>13. ASSUME NEW p \in Procs, ReadDone(p)
       PROVE  ShapeOf(p)'
  BY <1>13 DEF ReadDone, Finish, KeepBus, Shape, ShapeOf, InsideLock, InCommand
<1>14. ASSUME NEW p \in Procs, DeadlinePasses(p)
       PROVE  Shape'
  BY <1>14 DEF DeadlinePasses, Shape, ShapeOf, InsideLock, InCommand
<1>15. CASE ChipFinish
  BY <1>15 DEF ChipFinish, driverVars, Shape, ShapeOf, InsideLock, InCommand
<1>16. CASE UNCHANGED vars
  BY <1>16 DEF vars, driverVars, Shape, ShapeOf, InsideLock, InCommand
<1>17. ASSUME NEW p \in Procs, Step(p)
       PROVE  ShapeOf(p)'
  BY <1>17, <1>3, <1>4, <1>5, <1>6, <1>7, <1>8, <1>9, <1>10, <1>11, <1>12, <1>13
     DEF Step
<1> QED
  BY <1>1, <1>2, <1>14, <1>15, <1>16, <1>17 DEF Next

-----------------------------------------------------------------------------
(* The chip's operation belongs to the call that issued it.                    *)

(* What one Command can do to the chip's operation.                            *)
LEMMA ClockedOp ==
  ASSUME TypeOK, Shape, NEW p \in Procs, Clock(p), chip'.op # chip.op
  PROVE  /\ stage[p] = "issue" /\ chip'.op = Issued(p) /\ cause' = call[p]
         /\ call[p] \in Call /\ Issued(p).cells \subseteq Target(call[p])
<1>1. /\ InCommand(p) /\ call[p] \in Call /\ Valid(call[p]) /\ cause' = call[p]
      /\ pc[p] = "clock"
  BY DEF Clock, Shape, ShapeOf, InCommand, InsideLock
<1>2. chip' = Effect(p)
  BY DEF Clock
<1>3. chip \in ChipType
  BY DEF TypeOK
<1>4. stage[p] = "issue"
  BY <1>2, <1>3 DEF Effect, WriteEnabled, ChipType
<1>5. chip'.op = Issued(p)
  BY <1>2, <1>3, <1>4 DEF Effect, Started, ChipType
<1>6. Issued(p).cells \subseteq Target(call[p])
  BY <1>1, <1>4, IssuedExact DEF Shape, ShapeOf
<1> QED
  BY <1>1, <1>4, <1>5, <1>6

(* Every step keeps the chip's operation inside its call's range.              *)
LEMMA ContainedStep ==
  ASSUME TypeOK, Shape, Contained, [Next]_vars
  PROVE  Contained'
<1>1. ASSUME NEW p \in Procs, Clock(p)
      PROVE  Contained'
  <2>1. CASE chip'.op = chip.op
    <3>1. cause' = cause
      BY <1>1, <2>1 DEF Clock
    <3> QED
      BY <2>1, <3>1 DEF Contained, Busy
  <2>2. CASE chip'.op # chip.op
    BY <1>1, <2>2, ClockedOp DEF Contained
  <2> QED
    BY <2>1, <2>2
<1>2. CASE ChipFinish
  BY <1>2 DEF ChipFinish, Finished, Contained, Busy
<1>3. ASSUME UNCHANGED <<chip, cause>>
      PROVE  Contained'
  BY <1>3 DEF Contained, Busy
<1>4. ASSUME NEW p \in Procs, NEW c \in Call, Enter(p, c)
      PROVE  UNCHANGED <<chip, cause>>
  BY <1>4 DEF Enter
<1>5. ASSUME NEW p \in Procs, Step(p), ~Clock(p)
      PROVE  UNCHANGED <<chip, cause>>
  BY <1>5 DEF Step, Lock, Return, AssertCE, RestoreCE, GotID, SentWREN, CheckLatch,
              StartPolling, PollReady, PollAgain, PollTimeout, ReadByte, ReadDone,
              KeepBus
<1>6. ASSUME NEW p \in Procs, DeadlinePasses(p)
      PROVE  UNCHANGED <<chip, cause>>
  BY <1>6 DEF DeadlinePasses
<1>7. CASE UNCHANGED vars
  BY <1>3, <1>7 DEF vars
<1> QED
  BY <1>1, <1>2, <1>3, <1>4, <1>5, <1>6, <1>7 DEF Next

-----------------------------------------------------------------------------
(* The driver's view of the chip.                                              *)

(* A goroutine that does not move keeps track of a chip that does not change;  *)
(* one that is outside its critical section has nothing to track.              *)
LEMMA TracksStill ==
  ASSUME NEW q \in Procs, TracksOf(q), Untouched(q),
         UNCHANGED chip \/ ~InsideLock(q)
  PROVE  TracksOf(q)'
<1>1. InsideLock(q)' = InsideLock(q)
  BY DEF Untouched, InsideLock
<1>2. CASE ~InsideLock(q)
  BY <1>1, <1>2 DEF TracksOf
<1>3. CASE UNCHANGED chip
  <2>1. /\ Progress(q)' = Progress(q) /\ Applied(q)' = Applied(q)
        /\ InCommand(q)' = InCommand(q) /\ Sent(q)' = Sent(q)
        /\ Issued(q)' = Issued(q) /\ Busy(chip)' = Busy(chip)
    BY <1>3 DEF Untouched, Progress, Applied, InCommand, Sent, Issued, Busy
  <2> QED
    BY <1>1, <1>3, <2>1 DEF Untouched, TracksOf
<1> QED
  BY <1>2, <1>3

(* In a critical section only its owner's view has to be shown again.          *)
LEMMA TracksFrame ==
  ASSUME TypeOK, BusExclusive, Shape, Tracks, NEW p \in Procs, InsideLock(p),
         Step(p), TracksOf(p)'
  PROVE  Tracks'
<1>1. ASSUME NEW q \in Procs, q # p
      PROVE  TracksOf(q)'
  <2>1. Untouched(q) /\ ~InsideLock(q) /\ TracksOf(q)
    BY <1>1, StepFrame, Alone DEF Tracks
  <2> QED
    BY <2>1, TracksStill
<1> QED
  BY <1>1 DEF Tracks

(* The chip's completion turns the operation in progress into its effect.      *)
LEMMA TracksFinish ==
  ASSUME TypeOK, Shape, Tracks, ChipFinish, NEW p \in Procs
  PROVE  TracksOf(p)'
<1> SUFFICES ASSUME clean[p], InsideLock(p)
             PROVE  TracksOf(p)'
  BY DEF ChipFinish, driverVars, TracksOf, InsideLock
<1>1. /\ Busy(chip) /\ chip' = Finished(chip) /\ ~Busy(chip)'
      /\ UNCHANGED driverVars /\ clean' = clean
  BY DEF ChipFinish, Finished, Busy
<1>2. /\ InCommand(p)' = InCommand(p) /\ Sent(p)' = Sent(p)
      /\ InsideLock(p)' = InsideLock(p)
      /\ pc' = pc /\ call' = call /\ stage' = stage /\ n' = n /\ err' = err
      /\ rx' = rx
  BY <1>1 DEF driverVars, InCommand, Sent, InsideLock
<1>3. TracksOf(p) /\ ShapeOf(p) /\ call[p] \in Call
  BY DEF Tracks, Shape, ShapeOf, InsideLock
<1>4. chip'.mem = [x \in Cells |->
                     IF x \notin chip.op.cells THEN chip.mem[x]
                     ELSE IF chip.op.kind = "erase" THEN {}
                          ELSE chip.mem[x] \cup {chip.op.data}]
  BY <1>1 DEF Finished, Apply
<1>5. InCommand(p) =>
        /\ stage[p] = "poll" \/ (stage[p] = "issue" /\ Sent(p))
             \/ (stage[p] = "rdid" /\ call[p].kind = "id")
        /\ stage[p] # "rdid" => chip.op = Issued(p)
  BY <1>1, <1>3 DEF TracksOf, ShapeOf, InCommand
<1>6. Progress(p)'
  <2> SUFFICES ASSUME call[p].kind = "write"
               PROVE  Progress(p)'
    BY <1>2 DEF Progress
  <2>1. InCommand(p) \/ pc[p] = "return"
    BY <1>1, <1>3 DEF TracksOf, InsideLock, InCommand
  <2>2. InCommand(p) => chip.op.kind = "program"
    BY <1>5 DEF Issued, ProgramOp
  <2>3. chip.op.kind = "program"
    BY <1>1, <1>3, <2>1, <2>2 DEF TracksOf
  <2>4. \A x \in Cells : chip.mem[x] \subseteq chip'.mem[x]
    BY <1>4, <2>3
  <2> QED
    BY <1>2, <1>3, <2>4 DEF TracksOf, Progress
<1>7. InCommand(p) /\ stage[p] # "rdid" => Applied(p)'
  <2> SUFFICES ASSUME InCommand(p), stage[p] # "rdid"
               PROVE  Applied(p)'
    OBVIOUS
  <2>1. /\ chip.op = Issued(p) /\ Valid(call[p])
        /\ call[p].kind = "erase" \/ (call[p].kind = "write" /\ n[p] < call[p].len)
    BY <1>3, <1>5 DEF ShapeOf, InCommand
  <2>2. CASE call[p].kind = "erase"
    <3>1. chip.op = [kind |-> "erase", cells |-> Target(call[p])]
      BY <1>3, <2>1, <2>2, IssuedExact
    <3>2. Target(call[p]) \subseteq Cells
      BY <2>2 DEF Target
    <3> QED
      BY <1>2, <1>4, <2>2, <3>1, <3>2 DEF Applied
  <2>3. CASE call[p].kind = "write"
    <3>1. /\ chip.op.kind = "program" /\ chip.op.data = call[p].data
          /\ chip.op.cells = {x \in Cells :
               /\ call[p].addr + n[p] <= x
               /\ x < call[p].addr + n[p] + Chunk(call[p], n[p])}
      BY <1>3, <2>1, <2>3, IssuedExact
    <3> QED
      BY <1>2, <1>4, <2>3, <3>1 DEF Applied
  <2> QED
    BY <2>1, <2>2, <2>3
<1>8. pc[p] # "window"
  BY <1>1, <1>3 DEF TracksOf
<1>9. pc[p] = "return" => /\ err[p] \in {"nil", "timeout"}
                          /\ ~(err[p] = "nil" /\ call[p].kind # "id")
  BY <1>1, <1>3 DEF TracksOf
<1>10. ~(InCommand(p) /\ pc[p] = "return")
  BY DEF InCommand
<1> QED
  BY <1>1, <1>2, <1>5, <1>6, <1>7, <1>8, <1>9, <1>10 DEF TracksOf

(* A Command with the chip: WREN sets the latch, RDSR shows it, the issued     *)
(* operation starts, and a poll that shows WIP clear comes after its end.      *)
LEMMA TracksClock ==
  ASSUME TypeOK, BusExclusive, Shape, Tracks, NEW p \in Procs, Clock(p)
  PROVE  TracksOf(p)'
<1> SUFFICES ASSUME clean[p]
             PROVE  TracksOf(p)'
  BY DEF Clock, TracksOf
<1>1. /\ pc[p] = "clock" /\ InsideLock(p) /\ InCommand(p) /\ ~Sent(p)
      /\ TracksOf(p) /\ ShapeOf(p) /\ call[p] \in Call /\ Valid(call[p])
  BY DEF Clock, Tracks, Shape, ShapeOf, InsideLock, InCommand, Sent
<1>2. ctl = "user"
  BY <1>1 DEF BusExclusive, TypeOK
<1>3. chip' = Effect(p) /\ rx'[p] = Reply(p)
  BY <1>2 DEF Clock, TypeOK
<1>4. /\ pc'[p] = "restore" /\ Sent(p)' /\ InCommand(p)'
      /\ call' = call /\ stage' = stage /\ n' = n /\ clean' = clean
  BY DEF Clock, TypeOK, Sent, InCommand
<1>5. chip \in ChipType
  BY DEF TypeOK
<1>6. chip'.mem = chip.mem
  BY <1>3, <1>5 DEF Effect, WriteEnabled, Started, ChipType
<1>7. Progress(p)'
  BY <1>1, <1>4, <1>6 DEF TracksOf, Progress
<1>8. CASE stage[p] = "rdid"
  BY <1>4, <1>7, <1>8 DEF TracksOf
<1>9. CASE stage[p] = "wren"
  <2>1. ~Busy(chip)
    BY <1>1, <1>9 DEF TracksOf
  <2>2. chip' = [chip EXCEPT !.wel = TRUE]
    BY <1>3, <1>9, <2>1 DEF Effect, WriteEnabled
  <2>3. chip'.wel /\ ~Busy(chip)'
    BY <1>5, <2>1, <2>2 DEF Busy, ChipType
  <2> QED
    BY <1>4, <1>7, <1>9, <2>3 DEF TracksOf
<1>10. CASE stage[p] = "rdsr"
  <2>1. ~Busy(chip) /\ chip.wel /\ chip' = chip
    BY <1>1, <1>3, <1>10 DEF TracksOf, Effect
  <2>2. "WEL" \in rx'[p]
    BY <1>3, <1>10, <2>1 DEF Reply, StatusBits
  <2>3. ~Busy(chip)' /\ chip'.wel
    BY <2>1
  <2> QED
    BY <1>4, <1>7, <1>10, <2>2, <2>3 DEF TracksOf
<1>11. CASE stage[p] = "issue"
  <2>1. ~Busy(chip) /\ chip.wel
    BY <1>1, <1>11 DEF TracksOf
  <2>2. chip' = [chip EXCEPT !.op = Issued(p)]
    BY <1>3, <1>11, <2>1 DEF Effect, Started
  <2>3. Issued(p)' = Issued(p)
    BY <1>4 DEF Issued
  <2>4. chip'.op = Issued(p)'
    BY <1>5, <2>2, <2>3 DEF ChipType
  <2>5. Issued(p) \in Op
    BY <1>1, <1>11, IssuedExact DEF ShapeOf
  <2>6. Busy(chip)'
    <3>1. Issued(p).kind \in {"program", "erase"}
      BY <2>5 DEF Op
    <3> QED
      BY <2>3, <2>4, <3>1 DEF Busy, NoOp
  <2> QED
    BY <1>4, <1>7, <1>11, <2>4, <2>6 DEF TracksOf
<1>12. CASE stage[p] = "poll"
  <2>1. chip' = chip
    BY <1>3, <1>12 DEF Effect
  <2>2. "WIP" \notin rx'[p] => ~Busy(chip)'
    BY <1>3, <1>12, <2>1 DEF Reply, StatusBits
  <2>3. /\ Applied(p)' = Applied(p) /\ Issued(p)' = Issued(p)
        /\ Busy(chip)' = Busy(chip)
    BY <1>4, <2>1 DEF Applied, Issued
  <2>4. IF Busy(chip) THEN chip.op = Issued(p) ELSE Applied(p)
    BY <1>1, <1>12 DEF TracksOf
  <2> QED
    BY <1>4, <1>7, <1>12, <2>1, <2>2, <2>3, <2>4 DEF TracksOf
<1> QED
  BY <1>1, <1>8, <1>9, <1>10, <1>11, <1>12 DEF ShapeOf

(* Taking the mutex, clean exactly when the chip is idle.                      *)
LEMMA TracksLock ==
  ASSUME TypeOK, BusExclusive, Shape, Tracks, NEW p \in Procs, Lock(p)
  PROVE  TracksOf(p)'
<1> SUFFICES ASSUME clean'[p]
             PROVE  TracksOf(p)'
  BY DEF TracksOf
<1>1. /\ ~Busy(chip) /\ UNCHANGED <<call, n, chip>> /\ n[p] = 0
      /\ call[p] \in Call /\ pc[p] = "lock"
  BY DEF Lock, TypeOK, Shape, ShapeOf
<1>2. Progress(p)'
  <2>1. \A x \in Cells : ~(call[p].addr <= x /\ x < call[p].addr + n[p])
          \/ call[p].kind # "write"
    <3>1. call[p].kind = "write" => call[p].addr \in Int
      BY <1>1, ArgumentTypes
    <3> QED
      BY <1>1, <3>1 DEF Cells
  <2> QED
    BY <1>1, <2>1 DEF Progress
<1>3. call[p].kind \in {"id", "read", "write", "erase"}
  BY <1>1 DEF Call, ReadID, ReadAt, WriteAt, EraseBlock
<1>4. CASE call[p].kind = "id"
  <2>1. pc'[p] = "assert" /\ stage'[p] = "rdid"
    BY <1>4 DEF Lock, Run, TypeOK
  <2> QED
    BY <1>2, <2>1 DEF TracksOf, InCommand
<1>5. CASE call[p].kind = "read"
  <2>1. pc'[p] = "window"
    BY <1>5 DEF Lock, TypeOK
  <2> QED
    BY <1>1, <1>2, <2>1 DEF TracksOf, InCommand, Busy
<1>6. CASE \/ call[p].kind = "erase"
           \/ call[p].kind = "write" /\ 0 < call[p].len
  <2>1. pc'[p] = "assert" /\ stage'[p] = "wren"
    BY <1>6 DEF Lock, NextPage, Run, TypeOK
  <2> QED
    BY <1>1, <1>2, <2>1 DEF TracksOf, InCommand, Sent, Busy
<1>7. CASE call[p].kind = "write" /\ ~(0 < call[p].len)
  <2>1. pc'[p] = "return" /\ err'[p] = "nil"
    BY <1>7 DEF Lock, NextPage, Finish, TypeOK
  <2>2. n[p] = call[p].len
    BY <1>1, <1>7, ArgumentTypes
  <2> QED
    BY <1>1, <1>2, <1>7, <2>1, <2>2 DEF TracksOf, InCommand, Busy
<1> QED
  BY <1>3, <1>4, <1>5, <1>6, <1>7

(* waitReady saw WIP clear: the page or the block is done, and so are the      *)
(* bytes counted.                                                              *)
LEMMA TracksReady ==
  ASSUME TypeOK, BusExclusive, Shape, Tracks, NEW p \in Procs, PollReady(p)
  PROVE  TracksOf(p)'
<1> SUFFICES ASSUME clean[p]
             PROVE  TracksOf(p)'
  BY DEF PollReady, KeepBus, TracksOf
<1>1. /\ pc[p] = "reply" /\ stage[p] = "poll" /\ InsideLock(p) /\ InCommand(p)
      /\ Sent(p) /\ TracksOf(p) /\ ShapeOf(p) /\ call[p] \in Call
      /\ Valid(call[p]) /\ "WIP" \notin rx[p] /\ UNCHANGED <<call, chip, clean>>
  BY DEF PollReady, Replied, KeepBus, Tracks, Shape, ShapeOf, InsideLock,
         InCommand, Sent
<1>2. ~Busy(chip) /\ Applied(p) /\ Progress(p) /\ ~Busy(chip)'
  BY <1>1 DEF TracksOf
<1>3. CASE call[p].kind = "erase"
  <2>1. pc'[p] = "return" /\ err'[p] = "nil" /\ n' = n
    BY <1>3 DEF PollReady, Finish, TypeOK
  <2>2. Applied(p)' /\ Progress(p)'
    BY <1>1, <1>2, <1>3, <2>1 DEF Applied, Progress
  <2> QED
    BY <1>1, <1>2, <1>3, <2>1, <2>2 DEF TracksOf, InCommand
<1>4. CASE call[p].kind = "write" /\ n[p] < call[p].len
  <2> DEFINE k == Chunk(call[p], n[p])
  <2>1. k \in 1 .. (call[p].len - n[p])
    BY <1>1, <1>4, IssuedExact
  <2>2. /\ call[p].addr \in Int /\ call[p].len \in Nat /\ n[p] \in Nat
    BY <1>1, <1>4, ArgumentTypes DEF TypeOK
  <2>3. n'[p] = n[p] + k /\ NextPage(p, n[p] + k)
    BY <1>4 DEF PollReady, TypeOK
  <2>4. \A x \in Cells :
          (call[p].addr + n[p] <= x /\ x < call[p].addr + n[p] + k)
            => call[p].data \in chip.mem[x]
    BY <1>2, <1>4 DEF Applied
  <2> HIDE DEF k
  <2>5. ASSUME NEW x \in Cells, call[p].addr <= x, x < call[p].addr + (n[p] + k)
        PROVE  call[p].data \in chip.mem[x]
    <3>1. x \in Int /\ k \in Int
      BY <2>1 DEF Cells
    <3>2. CASE x < call[p].addr + n[p]
      BY <1>2, <1>4, <2>5, <3>2 DEF Progress
    <3>3. CASE ~(x < call[p].addr + n[p])
      BY <2>2, <2>4, <2>5, <3>1, <3>3
    <3> QED
      BY <3>2, <3>3
  <2>6. Progress(p)'
    BY <1>1, <2>3, <2>5 DEF Progress
  <2>7. CASE n[p] + k < call[p].len
    <3>1. pc'[p] = "assert" /\ stage'[p] = "wren"
      BY <2>3, <2>7 DEF NextPage, Run, TypeOK
    <3> QED
      BY <1>2, <2>6, <3>1 DEF TracksOf, InCommand, Sent
  <2>8. CASE ~(n[p] + k < call[p].len)
    <3>1. pc'[p] = "return" /\ err'[p] = "nil"
      BY <2>3, <2>8 DEF NextPage, Finish, TypeOK
    <3>2. n'[p] = call'[p].len
      BY <1>1, <2>1, <2>2, <2>3, <2>8
    <3> QED
      BY <1>1, <1>2, <1>4, <2>6, <3>1, <3>2 DEF TracksOf, InCommand
  <2> QED
    BY <2>7, <2>8
<1> QED
  BY <1>1, <1>3, <1>4 DEF ShapeOf

(* The remaining steps inside the critical section leave the chip alone.       *)
LEMMA TracksInside ==
  ASSUME TypeOK, BusExclusive, Shape, Tracks, NEW p \in Procs,
         \/ AssertCE(p) \/ RestoreCE(p) \/ GotID(p) \/ SentWREN(p)
         \/ CheckLatch(p) \/ StartPolling(p) \/ PollAgain(p) \/ PollTimeout(p)
         \/ ReadByte(p) \/ ReadDone(p)
  PROVE  TracksOf(p)'
<1>1. /\ InsideLock(p) /\ TracksOf(p) /\ ShapeOf(p) /\ call[p] \in Call
      /\ UNCHANGED <<call, chip, clean>>
  BY DEF AssertCE, RestoreCE, GotID, SentWREN, CheckLatch, StartPolling, PollAgain,
         PollTimeout, ReadByte, ReadDone, Replied, KeepBus, Tracks, Shape, ShapeOf,
         InsideLock
<1> SUFFICES ASSUME clean[p]
             PROVE  TracksOf(p)'
  BY <1>1 DEF TracksOf
<1>2. ~Busy(chip)' <=> ~Busy(chip)
  BY <1>1
<1>3. ASSUME n' = n
      PROVE  /\ Progress(p)' = Progress(p) /\ Applied(p)' = Applied(p)
             /\ Issued(p)' = Issued(p)
  BY <1>1, <1>3 DEF Progress, Applied, Issued
<1> USE DEF TypeOK
<1>4. CASE AssertCE(p)
  <2>1. /\ pc[p] = "assert" /\ pc'[p] = "clock" /\ n' = n /\ stage' = stage
        /\ rx' = rx /\ InCommand(p) /\ ~Sent(p) /\ ~Sent(p)'
    BY <1>4 DEF AssertCE, InCommand, Sent
  <2> QED
    BY <1>1, <1>2, <1>3, <2>1 DEF TracksOf, InCommand
<1>5. CASE RestoreCE(p)
  <2>1. /\ pc[p] = "restore" /\ pc'[p] = "reply" /\ n' = n /\ stage' = stage
        /\ rx' = rx /\ InCommand(p) /\ Sent(p) /\ Sent(p)'
    BY <1>5 DEF RestoreCE, InCommand, Sent
  <2> QED
    BY <1>1, <1>2, <1>3, <2>1 DEF TracksOf, InCommand
<1>6. CASE GotID(p)
  <2>1. /\ pc'[p] = "return" /\ err'[p] = "nil" /\ n' = n /\ call[p].kind = "id"
    BY <1>1, <1>6 DEF GotID, Replied, Finish, ShapeOf, InCommand
  <2> QED
    BY <1>1, <1>3, <2>1 DEF TracksOf, InCommand
<1>7. CASE SentWREN(p)
  <2>1. /\ pc[p] = "reply" /\ stage[p] = "wren" /\ n' = n /\ InCommand(p) /\ Sent(p)
        /\ pc'[p] = "assert" /\ stage'[p] = "rdsr"
    BY <1>7 DEF SentWREN, Replied, Run, InCommand, Sent
  <2> QED
    BY <1>1, <1>2, <1>3, <2>1 DEF TracksOf, InCommand, Sent
<1>8. CASE CheckLatch(p)
  <2>1. /\ pc[p] = "reply" /\ stage[p] = "rdsr" /\ n' = n /\ InCommand(p) /\ Sent(p)
    BY <1>8 DEF CheckLatch, Replied, InCommand, Sent
  <2>2. "WEL" \in rx[p]
    BY <1>1, <2>1 DEF TracksOf
  <2>3. pc'[p] = "assert" /\ stage'[p] = "issue"
    BY <1>8, <2>2 DEF CheckLatch, Run
  <2> QED
    BY <1>1, <1>2, <1>3, <2>1, <2>3 DEF TracksOf, InCommand, Sent
<1>9. CASE StartPolling(p) \/ PollAgain(p)
  <2>1. /\ pc[p] = "reply" /\ stage[p] \in {"issue", "poll"} /\ n' = n
        /\ InCommand(p) /\ Sent(p) /\ pc'[p] = "assert" /\ stage'[p] = "poll"
    BY <1>9 DEF StartPolling, PollAgain, Replied, Run, InCommand, Sent
  <2> QED
    BY <1>1, <1>2, <1>3, <2>1 DEF TracksOf, InCommand, Sent
<1>10. CASE PollTimeout(p)
  <2>1. /\ pc[p] = "reply" /\ stage[p] = "poll" /\ n' = n /\ InCommand(p)
        /\ pc'[p] = "return" /\ err'[p] = "timeout"
    BY <1>10 DEF PollTimeout, Replied, Finish, InCommand
  <2>2. Busy(chip) /\ call[p].kind = "write" => chip.op.kind = "program"
    BY <1>1, <2>1 DEF TracksOf, Issued, ProgramOp
  <2> QED
    BY <1>1, <1>2, <1>3, <2>1, <2>2 DEF TracksOf, InCommand
<1>11. CASE ReadByte(p)
  <2>1. /\ pc[p] = "window" /\ pc'[p] = "window" /\ call[p].kind = "read"
    BY <1>1, <1>11 DEF ReadByte, ShapeOf
  <2> QED
    BY <1>1, <1>2, <2>1 DEF TracksOf, InCommand, Progress
<1>12. CASE ReadDone(p)
  <2>1. /\ pc[p] = "window" /\ pc'[p] = "return" /\ call[p].kind = "read"
        /\ n' = n /\ err'[p] = "nil"
    BY <1>1, <1>12 DEF ReadDone, Finish, ShapeOf
  <2> QED
    BY <1>1, <1>2, <1>3, <2>1 DEF TracksOf, InCommand
<1> QED
  BY <1>4, <1>5, <1>6, <1>7, <1>8, <1>9, <1>10, <1>11, <1>12

(* Every step keeps every goroutine's view of the chip true.                   *)
LEMMA TracksStep ==
  ASSUME TypeOK, BusExclusive, Shape, Tracks, [Next]_vars
  PROVE  Tracks'
<1>1. ASSUME NEW p \in Procs, Step(p), InsideLock(p), ~Return(p)
      PROVE  Tracks'
  <2>1. ~Lock(p)
    BY <1>1 DEF Lock, InsideLock
  <2>2. TracksOf(p)'
    BY <1>1, <2>1, TracksClock, TracksReady, TracksInside DEF Step
  <2> QED
    BY <1>1, <2>2, TracksFrame
<1>2. ASSUME NEW p \in Procs, Step(p), ~InsideLock(p)
      PROVE  Lock(p) \/ Return(p)
  BY <1>2 DEF Step, InsideLock, AssertCE, Clock, RestoreCE, GotID, SentWREN,
              CheckLatch, StartPolling, PollReady, PollAgain, PollTimeout, Replied,
              ReadByte, ReadDone
<1>3. ASSUME NEW p \in Procs, UNCHANGED chip, TracksOf(p)',
             \A q \in Procs : q # p => Untouched(q)
      PROVE  Tracks'
  <2>1. \A q \in Procs : q # p => TracksOf(q)'
    BY <1>3, TracksStill DEF Tracks
  <2> QED
    BY <1>3, <2>1 DEF Tracks
<1>4. ASSUME NEW p \in Procs, Lock(p)
      PROVE  Tracks'
  <2>1. UNCHANGED chip /\ Step(p)
    BY <1>4 DEF Lock, Step
  <2> QED
    BY <1>3, <1>4, <2>1, StepFrame, TracksLock
<1>5. ASSUME NEW p \in Procs, Return(p)
      PROVE  Tracks'
  <2>1. UNCHANGED chip /\ Step(p) /\ ~InsideLock(p)'
    BY <1>5 DEF Return, Step, InsideLock, TypeOK
  <2>2. TracksOf(p)'
    BY <2>1 DEF TracksOf
  <2> QED
    BY <1>3, <2>1, <2>2, StepFrame
<1>6. ASSUME NEW p \in Procs, NEW c \in Call, Enter(p, c)
      PROVE  Tracks'
  <2>1. UNCHANGED chip /\ ~InsideLock(p)'
    BY <1>6 DEF Enter, InsideLock, TypeOK
  <2>2. TracksOf(p)'
    BY <2>1 DEF TracksOf
  <2>3. \A q \in Procs : q # p => Untouched(q)
    BY <1>6 DEF Enter, Untouched, TypeOK
  <2> QED
    BY <1>3, <2>1, <2>2, <2>3
<1>7. CASE ChipFinish
  BY <1>7, TracksFinish DEF Tracks
<1>8. ASSUME UNCHANGED <<pc, call, stage, n, err, rx, saved, dst, clean, chip>>
      PROVE  Tracks'
  <2>1. \A q \in Procs : Untouched(q) /\ UNCHANGED chip
    BY <1>8 DEF Untouched
  <2> QED
    BY <2>1, TracksStill DEF Tracks
<1>9. ASSUME NEW p \in Procs, DeadlinePasses(p)
      PROVE  Tracks'
  BY <1>8, <1>9 DEF DeadlinePasses
<1>10. CASE UNCHANGED vars
  BY <1>8, <1>10 DEF vars, driverVars
<1> QED
  BY <1>1, <1>2, <1>4, <1>5, <1>6, <1>7, <1>9, <1>10 DEF Next

-----------------------------------------------------------------------------
(* The inductive invariant and what follows from it.                           *)

(* The initial state satisfies the invariant.                                  *)
LEMMA InitInv == Init => Inv
<1> SUFFICES ASSUME Init
             PROVE  Inv
  OBVIOUS
<1>1. chip \in ChipType
  BY DEF Init, ChipType, Cell
<1>2. TypeOK
  BY <1>1 DEF Init, TypeOK, PCs, Stages, Errors
<1>3. BusExclusive
  BY DEF Init, BusExclusive, InsideLock
<1>4. Shape
  BY DEF Init, Shape, ShapeOf, InsideLock, InCommand
<1>5. Tracks
  BY DEF Init, Tracks, TracksOf, InsideLock
<1>6. Contained
  BY DEF Init, Contained, Busy
<1> QED
  BY <1>2, <1>3, <1>4, <1>5, <1>6 DEF Inv

(* Every step keeps the invariant.                                             *)
LEMMA NextInv == Inv /\ [Next]_vars => Inv'
  BY TypeStep, BusStep, ShapeStep, TracksStep, ContainedStep DEF Inv

(* The inductive invariant: types, the lock, the control shape, the driver's   *)
(* view of the chip and the owner of the chip's operation.                     *)
THEOREM InvHolds == Spec => []Inv
<1>1. Init => Inv
  BY InitInv
<1>2. Inv /\ [Next]_vars => Inv'
  BY NextInv
<1> QED
  BY <1>1, <1>2, PTL DEF Spec

(* Types are kept; WriteAt never counts below zero, and no command reaches a   *)
(* cell outside the chip.                                                      *)
THEOREM TypeCorrect == Spec => []TypeOK
<1>1. Inv => TypeOK
  BY DEF Inv
<1> QED
  BY <1>1, InvHolds, PTL

(* spinor.go:47-51 and spi.go:36-40: operations on one NOR exclude each other, *)
(* and the chip select rests in auto-read mode between Commands.               *)
THEOREM BusIsExclusive == Spec => []BusExclusive
<1>1. Inv => BusExclusive
  BY DEF Inv
<1> QED
  BY <1>1, InvHolds, PTL

(* A write or erase that found the chip idle reports only what is in flash,    *)
(* for every geometry, number of goroutines and chip timing.                   *)
THEOREM ReportsAreTrue == Spec => []ReportedIsDone
<1>1. Inv => ReportedIsDone
  <2> SUFFICES ASSUME Inv, NEW p \in Procs, pc[p] = "return", clean[p]
               PROVE  Reported(p)
    BY DEF ReportedIsDone
  <2> USE DEF Inv
  <2>1. TracksOf(p) /\ ShapeOf(p) /\ call[p] \in Call
    BY DEF Tracks, Shape, ShapeOf
  <2>2. CASE err[p] # "range"
    BY <2>1, <2>2 DEF TracksOf, InsideLock, Progress, Applied, Reported
  <2>3. CASE err[p] = "range"
    <3>1. n[p] = 0
      BY <2>1, <2>3 DEF ShapeOf
    <3>2. call[p].kind = "write" => call[p].addr \in Int
      BY <2>1, ArgumentTypes
    <3>3. call[p].kind = "write" =>
            \A x \in Cells : ~(call[p].addr <= x /\ x < call[p].addr + n[p])
      BY <3>1, <3>2 DEF Cells
    <3> QED
      BY <2>3, <3>3 DEF Reported
  <2> QED
    BY <2>2, <2>3
<1> QED
  BY <1>1, InvHolds, PTL

(* The write-enable check never fails a call that found the chip idle.         *)
THEOREM FailuresAreTimeouts == Spec => []OnlyTimeoutFails
<1>1. Inv => OnlyTimeoutFails
  <2> SUFFICES ASSUME Inv, NEW p \in Procs, pc[p] = "return", clean[p],
                      Valid(call[p])
               PROVE  err[p] \in {"nil", "timeout"}
    BY DEF OnlyTimeoutFails
  <2>1. TracksOf(p) /\ ShapeOf(p)
    BY DEF Inv, Tracks, Shape
  <2> QED
    BY <2>1 DEF TracksOf, ShapeOf, InsideLock
<1> QED
  BY <1>1, InvHolds, PTL

(* No byte changes outside the range of the call whose command is running.     *)
THEOREM ChangesAreContained == Spec => OnlyTargetChanges
<1>1. Inv /\ [Next]_vars =>
        [\A x \in Cells : chip'.mem[x] # chip.mem[x] => x \in Target(cause)]_vars
  <2> SUFFICES ASSUME Inv, [Next]_vars, NEW x \in Cells,
                      chip'.mem[x] # chip.mem[x]
               PROVE  x \in Target(cause)
    OBVIOUS
  <2> USE DEF Inv
  <2>1. CASE ChipFinish
    <3>1. x \in chip.op.cells
      BY <2>1 DEF ChipFinish, Finished, Apply
    <3> QED
      BY <2>1, <3>1 DEF ChipFinish, Contained
  <2>2. ASSUME NEW p \in Procs, Clock(p)
        PROVE  FALSE
    <3>1. chip \in ChipType
      BY DEF TypeOK
    <3>2. chip'.mem = chip.mem
      BY <2>2, <3>1 DEF Clock, Effect, WriteEnabled, Started, ChipType
    <3> QED
      BY <3>2
  <2>3. ASSUME NEW p \in Procs, Step(p), ~Clock(p)
        PROVE  FALSE
    BY <2>3 DEF Step, Lock, Return, AssertCE, RestoreCE, GotID, SentWREN,
                CheckLatch, StartPolling, PollReady, PollAgain, PollTimeout,
                ReadByte, ReadDone, KeepBus
  <2>4. ASSUME NEW p \in Procs, NEW c \in Call, Enter(p, c)
        PROVE  FALSE
    BY <2>4 DEF Enter
  <2>5. ASSUME NEW p \in Procs, DeadlinePasses(p)
        PROVE  FALSE
    BY <2>5 DEF DeadlinePasses
  <2>6. CASE UNCHANGED vars
    BY <2>6 DEF vars
  <2> QED
    BY <2>1, <2>2, <2>3, <2>4, <2>5, <2>6 DEF Next
<1> QED
  BY <1>1, InvHolds, PTL DEF Spec, OnlyTargetChanges

-----------------------------------------------------------------------------
(* What ReadAt has copied so far is what the flash holds.                      *)

ReadOf(p) ==
  clean[p] /\ InsideLock(p) /\ call[p].kind = "read" =>
    /\ dst[p] = [i \in 1 .. n[p] |-> chip.mem[call[p].addr + i - 1]]
    /\ pc[p] = "return" => err[p] = "nil" /\ n[p] = call[p].len

Reads == \A p \in Procs : ReadOf(p)

(* A goroutine that does not move, on memory that does not change.             *)
LEMMA ReadStill ==
  ASSUME NEW q \in Procs, ReadOf(q), Untouched(q), chip'.mem = chip.mem
  PROVE  ReadOf(q)'
  BY DEF ReadOf, Untouched, InsideLock

(* ReadWindow's byte is the cell at its address while the lock is held.        *)
LEMMA WindowIsFlash ==
  ASSUME Inv, NEW p \in Procs, pc[p] = "window", clean[p], n[p] < call[p].len
  PROVE  WindowByte(call[p].addr + n[p]) = chip.mem[call[p].addr + n[p]]
<1> USE DEF Inv
<1>1. /\ InsideLock(p) /\ ShapeOf(p) /\ TracksOf(p) /\ call[p] \in Call
      /\ Valid(call[p]) /\ call[p].kind = "read"
  BY DEF InsideLock, Shape, Tracks, ShapeOf
<1>2. ~Busy(chip)
  BY <1>1 DEF TracksOf
<1>3. ctl = "auto"
  <2>1. \A q \in Procs : pc[q] \in {"clock", "restore"} => q = p
    BY <1>1, Alone DEF InsideLock
  <2> QED
    BY <2>1 DEF BusExclusive
<1>4. call[p].addr + n[p] \in Cells
  <2>1. call[p].addr \in Int /\ call[p].len \in Nat /\ n[p] \in Nat
    BY <1>1, ArgumentTypes DEF TypeOK
  <2>2. call[p].addr >= 0 /\ call[p].addr + call[p].len <= Size
    BY <1>1 DEF Valid, InRange
  <2>3. Size \in Nat
    BY GeometryAssumption
  <2> QED
    BY <2>1, <2>2, <2>3 DEF Cells
<1> QED
  BY <1>2, <1>3, <1>4 DEF WindowByte

(* Appending the next value to the sequence of the first k values of a         *)
(* function gives the sequence of its first k + 1.                             *)
LEMMA AppendNext ==
  ASSUME NEW k \in Nat, NEW F
  PROVE  Append([i \in 1 .. k |-> F[i]], F[k + 1]) = [i \in 1 .. k + 1 |-> F[i]]
  OBVIOUS

(* Every step keeps the copy equal to the flash.                               *)
LEMMA ReadStep ==
  ASSUME Inv, Reads, [Next]_vars
  PROVE  Reads'
<1> USE DEF Inv
<1>1. ASSUME NEW p \in Procs, ReadByte(p), clean[p]
      PROVE  ReadOf(p)'
  <2>1. /\ pc[p] = "window" /\ pc' = pc /\ call' = call /\ clean' = clean
        /\ chip' = chip /\ n'[p] = n[p] + 1 /\ n[p] < call[p].len /\ n[p] \in Nat
        /\ dst'[p] = Append(dst[p], WindowByte(call[p].addr + n[p]))
    BY <1>1 DEF ReadByte, TypeOK
  <2>2. call[p] \in Call /\ call[p].kind = "read" /\ InsideLock(p)
    BY <2>1 DEF Shape, ShapeOf, InsideLock
  <2>3. call[p].addr \in Int
    BY <2>2, ArgumentTypes
  <2>4. dst[p] = [i \in 1 .. n[p] |-> chip.mem[call[p].addr + i - 1]]
    BY <1>1, <2>2 DEF Reads, ReadOf
  <2>5. dst'[p] = Append(dst[p], chip.mem[call[p].addr + n[p]])
    BY <1>1, <2>1, WindowIsFlash
  <2> DEFINE F == [i \in Nat |-> chip.mem[call[p].addr + i - 1]]
             G(k) == [i \in 1 .. k |-> chip.mem[call[p].addr + i - 1]]
  <2>6. \A k \in Nat : [i \in 1 .. k |-> F[i]] = G(k)
    OBVIOUS
  <2>7. F[n[p] + 1] = chip.mem[call[p].addr + n[p]]
    <3>1. call[p].addr + (n[p] + 1) - 1 = call[p].addr + n[p] /\ n[p] + 1 \in Nat
      BY <2>1, <2>3
    <3> QED
      BY <3>1
  <2> HIDE DEF F
  <2>8. Append([i \in 1 .. n[p] |-> F[i]], F[n[p] + 1])
          = [i \in 1 .. n[p] + 1 |-> F[i]]
    BY <2>1, AppendNext
  <2>9. dst'[p] = G(n[p] + 1)
    <3>1. n[p] + 1 \in Nat
      BY <2>1
    <3> QED
      BY <2>1, <2>4, <2>5, <2>6, <2>7, <2>8, <3>1
  <2> QED
    BY <2>1, <2>9 DEF ReadOf
<1>2. ASSUME NEW p \in Procs, Lock(p), call[p].kind = "read"
      PROVE  ReadOf(p)'
  <2>1. /\ pc'[p] = "window" /\ n'[p] = 0 /\ dst'[p] = <<>>
    BY <1>2 DEF Lock, Shape, ShapeOf, TypeOK
  <2> QED
    BY <2>1 DEF ReadOf
<1>3. ASSUME NEW p \in Procs, ReadDone(p), clean[p]
      PROVE  ReadOf(p)'
  <2>1. /\ pc[p] = "window" /\ n[p] >= call[p].len /\ UNCHANGED <<call, n, dst, chip>>
        /\ pc'[p] = "return" /\ err'[p] = "nil"
    BY <1>3 DEF ReadDone, Finish, KeepBus, TypeOK
  <2>2. /\ call[p] \in Call /\ call[p].kind = "read" /\ InsideLock(p)
        /\ n[p] <= call[p].len
    BY <2>1 DEF Shape, ShapeOf, InsideLock
  <2>3. n[p] = call[p].len
    BY <2>1, <2>2, ArgumentTypes DEF TypeOK
  <2> QED
    BY <1>3, <2>1, <2>2, <2>3 DEF ReadOf, Reads
<1>4. ASSUME NEW p \in Procs, Step(p)
      PROVE  ReadOf(p)'
  <2>1. CASE ~InsideLock(p)'
    BY <2>1 DEF ReadOf
  <2>2. CASE ~clean'[p] \/ call'[p].kind # "read"
    BY <2>2 DEF ReadOf
  <2>3. CASE InsideLock(p)' /\ clean'[p] /\ call'[p].kind = "read"
    <3>1. ~Return(p)
      BY <2>3 DEF Return, InsideLock, TypeOK
    <3>2. CASE Lock(p)
      <4>1. call[p].kind = "read"
        BY <2>3, <3>2 DEF Lock
      <4> QED
        BY <1>2, <3>2, <4>1
    <3>3. CASE ReadByte(p) \/ ReadDone(p)
      <4>1. clean[p]
        BY <2>3, <3>3 DEF ReadByte, ReadDone, KeepBus
      <4> QED
        BY <1>1, <1>3, <3>3, <4>1
    <3>4. CASE ~(Lock(p) \/ ReadByte(p) \/ ReadDone(p))
      <4>1. InCommand(p) /\ call'[p] = call[p]
        BY <1>4, <3>1, <3>4
           DEF Step, AssertCE, Clock, RestoreCE, GotID, SentWREN, CheckLatch,
               StartPolling, PollReady, PollAgain, PollTimeout, Replied, KeepBus,
               InCommand
      <4> QED
        BY <2>3, <4>1 DEF Shape, ShapeOf
    <3> QED
      BY <3>2, <3>3, <3>4
  <2> QED
    BY <2>1, <2>2, <2>3
<1>5. ASSUME NEW p \in Procs, Step(p)
      PROVE  chip'.mem = chip.mem
  <2>1. CASE Clock(p)
    BY <2>1 DEF Clock, Effect, WriteEnabled, Started, TypeOK, ChipType
  <2>2. CASE ~Clock(p)
    BY <1>5, <2>2 DEF Step, Lock, Return, AssertCE, RestoreCE, GotID, SentWREN,
                CheckLatch, StartPolling, PollReady, PollAgain, PollTimeout,
                ReadByte, ReadDone, KeepBus
  <2> QED
    BY <2>1, <2>2
<1>6. ASSUME NEW p \in Procs, Step(p)
      PROVE  Reads'
  <2>1. ASSUME NEW q \in Procs, q # p
        PROVE  ReadOf(q)'
    BY <1>5, <1>6, <2>1, StepFrame, ReadStill DEF Reads
  <2> QED
    BY <1>4, <1>6, <2>1 DEF Reads
<1>7. ASSUME NEW p \in Procs, NEW c \in Call, Enter(p, c)
      PROVE  Reads'
  <2>1. ~InsideLock(p)' /\ chip' = chip
    BY <1>7 DEF Enter, InsideLock, TypeOK
  <2>2. \A q \in Procs : q # p => Untouched(q)
    BY <1>7 DEF Enter, Untouched, TypeOK
  <2>3. ASSUME NEW q \in Procs
        PROVE  ReadOf(q)'
    BY <2>1, <2>2, ReadStill DEF Reads, ReadOf
  <2> QED
    BY <2>3 DEF Reads
<1>8. CASE ChipFinish
  <2>1. ASSUME NEW p \in Procs
        PROVE  ReadOf(p)'
    <3>1. Busy(chip) /\ UNCHANGED driverVars /\ clean' = clean
      BY <1>8 DEF ChipFinish
    <3>2. ~(clean[p] /\ InsideLock(p) /\ call[p].kind = "read")
      BY <3>1 DEF Tracks, TracksOf, Shape, ShapeOf, Reads, ReadOf, InsideLock,
                  InCommand
    <3> QED
      BY <3>1, <3>2 DEF ReadOf, driverVars, InsideLock
  <2> QED
    BY <2>1 DEF Reads
<1>9. ASSUME UNCHANGED <<pc, call, stage, n, err, rx, saved, dst, clean, chip>>
      PROVE  Reads'
  BY <1>9 DEF Reads, ReadOf, InsideLock
<1>10. ASSUME NEW p \in Procs, DeadlinePasses(p)
       PROVE  Reads'
  BY <1>9, <1>10 DEF DeadlinePasses
<1>11. CASE UNCHANGED vars
  BY <1>9, <1>11 DEF vars, driverVars
<1> QED
  BY <1>6, <1>7, <1>8, <1>10, <1>11 DEF Next

(* A ReadAt that found the chip idle returns the flash contents of the instant *)
(* of its return: nothing changed under it.                                    *)
THEOREM ReadsAreFlash == Spec => []ReadSeesFlash
<1>1. Init => Reads
  BY DEF Init, Reads, ReadOf, InsideLock
<1>2. Inv /\ Reads /\ [Next]_vars => Reads'
  BY ReadStep
<1>3. Reads /\ Inv => ReadSeesFlash
  <2> SUFFICES ASSUME Reads, Inv, NEW p \in Procs, pc[p] = "return",
                      call[p].kind = "read", err[p] = "nil", clean[p]
               PROVE  dst[p] = [i \in 1 .. call[p].len
                                  |-> chip.mem[call[p].addr + i - 1]]
    BY DEF ReadSeesFlash
  <2>1. InsideLock(p) /\ ReadOf(p)
    BY DEF InsideLock, Reads
  <2> QED
    BY <2>1 DEF ReadOf
<1> QED
  BY <1>1, <1>2, <1>3, InvHolds, PTL DEF Spec
=============================================================================
