------------------------------ MODULE NorChip ------------------------------
(* The SPI NOR flash chip behind hal/spinor, as the driver relies on it: a     *)
(* memory of cells, a write-enable latch (WEL) and at most one program or      *)
(* erase operation in progress (WIP).  The chip is not part of the repository: *)
(* each operator says what the commands of spinor.go make it do.               *)
EXTENDS Integers, FiniteSets

CONSTANTS Size,       \* NOR.Size: number of byte cells of the chip
          PageSize,   \* NOR.PageSize: a page program stays inside one page
          EraseSize,  \* NOR.EraseSize: what one erase command clears
          Data        \* the byte patterns callers program

ASSUME GeometryAssumption ==
  /\ Size \in Nat \ {0}
  /\ PageSize \in Nat \ {0}
  /\ EraseSize \in Nat \ {0}

Cells == 0 .. Size - 1

(* Programming can only clear bits, so a cell is the set of patterns ANDed     *)
(* into it since its last erase; the empty set is an erased cell.              *)
Cell == SUBSET Data

Op == [kind : {"program"}, cells : SUBSET Cells, data : Data]
        \cup [kind : {"erase"}, cells : SUBSET Cells]

NoOp == [kind |-> "none"]

ChipType == [mem : [Cells -> Cell], wel : BOOLEAN, op : Op \cup {NoOp}]

Busy(chip) == chip.op # NoOp

(* A page program of k bytes from address a wraps around inside a's page.      *)
ProgramCells(a, k) ==
  {x \in Cells : \E i \in 0 .. k - 1 :
     x = (a \div PageSize) * PageSize + (((a % PageSize) + i) % PageSize)}

EraseCells(a) == {x \in Cells : x \div EraseSize = a \div EraseSize}

ProgramOp(a, k, d) ==
  [kind |-> "program", cells |-> ProgramCells(a, k), data |-> d]

EraseOp(a) == [kind |-> "erase", cells |-> EraseCells(a)]

(* WREN sets the latch; a chip that is working ignores it.                     *)
WriteEnabled(chip) == IF Busy(chip) THEN chip ELSE [chip EXCEPT !.wel = TRUE]

(* A program or erase command starts only on an idle, write-enabled chip and   *)
(* is ignored otherwise.                                                       *)
Started(chip, op) ==
  IF Busy(chip) \/ ~chip.wel THEN chip ELSE [chip EXCEPT !.op = op]

Apply(mem, op) ==
  [x \in Cells |->
     IF x \notin op.cells THEN mem[x]
     ELSE IF op.kind = "erase" THEN {} ELSE mem[x] \cup {op.data}]

(* The operation in progress completes: WIP and WEL clear together.            *)
Finished(chip) ==
  [mem |-> Apply(chip.mem, chip.op), wel |-> FALSE, op |-> NoOp]

(* The status register: RDSR is answered at any time.                          *)
StatusBits(chip) ==
  (IF Busy(chip) THEN {"WIP"} ELSE {}) \cup (IF chip.wel THEN {"WEL"} ELSE {})

(* RDID is answered only by an idle chip.                                      *)
IdReply(chip) == IF Busy(chip) THEN {} ELSE {"ID"}
=============================================================================
