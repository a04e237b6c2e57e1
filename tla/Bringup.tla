------------------------------- MODULE Bringup -------------------------------
(* The programs of BringupPrograms on the two SCUs they share.  Each package   *)
(* runs one call at a time; the packages' accesses interleave.                 *)
EXTENDS BringupPrograms

VARIABLES
  scuKey, reg, dead,        \* the SCUs' protection keys, the registers, units that do not clock
  bootPc, bootCall, tmp, ok,\* per package: program counter, call, loaded value, all steps OK
  bootCalls,
  report, mac, screen,      \* history: what the USB traces said, the MAC's and the CRT's state
  overlapped                \* history: packages whose call has met another's

bootVars ==
  <<scuKey, reg, dead, bootPc, bootCall, tmp, ok, bootCalls, report, mac, screen, overlapped>>

-----------------------------------------------------------------------------
Live(u, regs) == u \notin dead /\ \A g \in Gates(u) : g[2] \notin regs[g[1]]
Scratch == {<<"pcie0", "scu0">>, <<"pcie1", "scu0">>}      \* not protected
Writable(r) == IF r[2] \in SCUs THEN scuKey[r[2]] \/ r \in Scratch ELSE Live(r[2], reg)
(* A unit that does not clock reads as its reset value.                        *)
Reading(r, regs) == IF Live(r[2], regs) THEN regs[r] ELSE {}

-----------------------------------------------------------------------------
(* Power-on: all is stopped and in reset, and routed elsewhere.                *)
BootInit ==
  /\ scuKey = [s \in SCUs |-> FALSE]
  /\ reg = [r \in Registers |->
              CASE r = Mux0 -> {24, 3, 28, 7} [] r = Mux1 -> {2}
                [] r = RstA -> {13, 28, 29} [] r = RstB -> {0, 3, 6, 7, 12}
                [] r = RstC -> {2, 5} [] r = RstD -> {29}
                [] r = Clk0 -> {3, 5, 7, 14, 17, 18, 20} [] r = Clk1 -> {8} [] r = Clk2 -> {18}
                [] r = Ctrl2 -> {8, 31} [] OTHER -> {}]
  /\ dead \in DeadSets
  /\ bootPc = [k \in Packages |-> 0] /\ bootCall = [k \in Packages |-> NoCall]
  /\ tmp = [k \in Packages |-> {}] /\ ok = [k \in Packages |-> TRUE] /\ bootCalls = 0
  /\ report = [p \in Ports \cup {"ehci"} |-> "none"] /\ mac = FALSE
  /\ screen = <<"off", 0>> /\ overlapped = {}

Busy == {k \in Packages : bootPc[k] # 0}

BeginCall(k, c) ==
  /\ bootPc[k] = 0
  /\ bootCalls < IF Busy \cup overlapped = {} THEN MaxBringups ELSE MaxMet
  /\ bootPc' = [bootPc EXCEPT ![k] = 1] /\ bootCall' = [bootCall EXCEPT ![k] = c]
  /\ ok' = [ok EXCEPT ![k] = TRUE] /\ bootCalls' = bootCalls + 1
  /\ overlapped' = IF Busy = {} THEN overlapped \ {k} ELSE overlapped \cup Busy \cup {k}
  /\ report' = IF c.op = "InitSteps" THEN [report EXCEPT ![c.arg] = "none"] ELSE report
  /\ mac' = (mac /\ k # "net")
  /\ UNCHANGED <<scuKey, reg, dead, tmp, screen>>

(* What an access leaves in the registers.                                     *)
With(r, v) == [reg EXCEPT ![r] = v]
Hold(r, bits) ==
  [x \in Registers |->
     IF x = r THEN reg[r] \cup bits
     ELSE LET by == ResetOf(x[2])
          IN IF by # <<>> /\ by[1] = r /\ by[2] \in bits THEN {} ELSE reg[x]]
After(k, o) ==
  CASE o.op = "put" -> With(o.r, o.set)
    [] o.op = "store" -> With(o.r, (tmp[k] \ o.clr) \cup o.set)
    [] o.op = "assert" -> Hold(o.r, o.set)
    [] o.op = "clear" -> With(o.r, reg[o.r] \ o.set)

(* Step.OK, of the value read back.                                            *)
OK(o, v) == o.wantSet \subseteq v /\ o.wantClr \cap v = {}

(* The display calls that count: clocks and format, then timing, then Enable,  *)
(* none of which has met another package's call.                               *)
Screen(c) ==
  IF "gfx" \in overlapped THEN <<"off", 0>>
  ELSE CASE c.op \in {"ConfigureCRT", "ConfigureAST2700DP800x600"} /\ c.arg # Odd ->
              <<"clocked", c.arg>>
         [] c.op = "SetMode" -> IF screen[1] # "off" /\ screen[2] = c.arg
                                THEN <<"timed", c.arg>> ELSE <<"off", 0>>
         [] c.op = "Enable" -> IF screen[1] = "timed" THEN <<"on", screen[2]>> ELSE screen
         [] c.op = "StartDPMCU" -> screen
         [] OTHER -> <<"off", 0>>

(* The call's next access; with the last one it returns.  An InitSteps that    *)
(* fails may have left its PHY, and so the port that shares it, in any state.  *)
EndCall(k, good) ==
  /\ bootPc' = [bootPc EXCEPT ![k] = 0] /\ bootCall' = [bootCall EXCEPT ![k] = NoCall]
  /\ tmp' = [tmp EXCEPT ![k] = {}] /\ ok' = [ok EXCEPT ![k] = TRUE]
  /\ report' = IF bootCall[k].op # "InitSteps" THEN report
               ELSE [p \in DOMAIN report |->
                       IF p = bootCall[k].arg THEN IF good THEN "ok" ELSE "failed"
                       ELSE IF k = "vhub" /\ ~good /\ p # "ehci"
                               /\ PortTable[p].phy = PortTable[bootCall[k].arg].phy
                       THEN "failed" ELSE report[p]]
  /\ mac' = IF k = "net" THEN TRUE ELSE mac
  /\ screen' = IF k = "gfx" THEN Screen(bootCall[k]) ELSE screen

Continue(k, good, v) ==
  /\ bootPc' = [bootPc EXCEPT ![k] = @ + 1] /\ ok' = [ok EXCEPT ![k] = good]
  /\ tmp' = [tmp EXCEPT ![k] = v] /\ UNCHANGED <<bootCall, report, mac, screen>>

(* Mutant: one access too many.                                                *)
NextOpPast(k, good, v) ==
  /\ IF bootPc[k] = Len(Programs[k][bootCall[k]]) + 1 THEN EndCall(k, good) ELSE Continue(k, good, v)
  /\ UNCHANGED <<dead, bootCalls, overlapped>>

NextOp(k, good, v) ==
  /\ IF bootPc[k] = Len(Programs[k][bootCall[k]]) THEN EndCall(k, good) ELSE Continue(k, good, v)
  /\ UNCHANGED <<dead, bootCalls, overlapped>>

Op(k) == Programs[k][bootCall[k]][bootPc[k]]

Protect(k) ==
  /\ bootPc[k] # 0 /\ Op(k).op \in {"unlock", "lock"}
  /\ scuKey' = [scuKey EXCEPT ![Op(k).r[2]] = (Op(k).op = "unlock")]
  /\ UNCHANGED reg /\ NextOp(k, ok[k], tmp[k])

Read32(k) ==
  /\ bootPc[k] # 0 /\ Op(k).op = "load"
  /\ UNCHANGED <<scuKey, reg>> /\ NextOp(k, ok[k], Reading(Op(k).r, reg))

(* A write to a locked SCU or to a unit that does not clock is lost.           *)
Write32(k) ==
  /\ bootPc[k] # 0 /\ Op(k).op \in {"put", "store", "assert", "clear"}
  /\ reg' = IF Writable(Op(k).r) THEN After(k, Op(k)) ELSE reg
  /\ UNCHANGED scuKey /\ NextOp(k, ok[k] /\ OK(Op(k), Reading(Op(k).r, reg')), tmp[k])

(* The host controller resets itself, in time or not at all.                   *)
HCReset(k) ==
  /\ bootPc[k] # 0 /\ Op(k).op = "hcreset"
  /\ reg' \in {reg, [reg EXCEPT ![Op(k).r] = {}, ![<<"flag", "ehci">>] = {}]}
  /\ UNCHANGED scuKey /\ NextOp(k, ok[k] /\ OK(Op(k), Reading(Op(k).r, reg')), tmp[k])

BootNext ==
  \E k \in Packages :
    \/ \E c \in Calls(k) : BeginCall(k, c)
    \/ Protect(k) \/ Read32(k) \/ Write32(k) \/ HCReset(k)

BootSpec == BootInit /\ [][BootNext]_bootVars

-----------------------------------------------------------------------------
BringupTypeOK ==
  /\ scuKey \in [SCUs -> BOOLEAN] /\ DOMAIN reg = Registers
  /\ \A k \in Packages :
       bootPc[k] # 0 => bootCall[k] \in Calls(k) /\ bootPc[k] <= Len(Programs[k][bootCall[k]])
  /\ bootCalls \in 0 .. MaxBringups

(* The hardware behind a vHub port, and behind the EHCI's.                     *)
Tuned(u) ==
  /\ Live(u, reg) /\ {26, 27} \subseteq reg[<<"sts2", u>>]
  /\ 22 \in reg[<<"sts3", u>>] /\ 21 \notin reg[<<"sts3", u>>]
VhubUp(p) ==
  LET t == PortTable[p] IN
  /\ Live(p, reg) /\ Tuned(t.phy) /\ reg[Mux0] \cap t.mask = t.bits
  /\ {31, 11} \subseteq reg[<<"ctrl", p>>] /\ 4 \in reg[<<"phyctrl", p>>]
  /\ reg[<<"swreset", p>>] = {} /\ (t.quirk => 13 \in reg[<<"phyctrl", p>>])
EhciUp ==
  /\ Live("ehci", reg) /\ Tuned("D") /\ reg[Mux1] = {3}
  /\ {31, 11} \subseteq reg[<<"ctrl", "D">>] /\ {10, 5} \subseteq reg[<<"phyctrl", "D">>]
  /\ reg[<<"flag", "ehci">>] = {0} /\ 12 \in reg[<<"portsc", "ehci">>] /\ reg[<<"cmd", "ehci">>] = {0}

(* When every Step of a USB bring-up was OK, its port is up: routed, clocked,  *)
(* out of reset, its PHY tuned and its core running.  That is so whatever dies *)
(* and whoever locks the SCU again in the middle, and it lasts while the other *)
(* ports and packages are brought up.                                          *)
TraceIsTrue ==
  /\ \A p \in Ports : report[p] = "ok" /\ bootPc["vhub"] = 0 => VhubUp(p)
  /\ report["ehci"] = "ok" => EhciUp

(* The bring-ups that leave no trace are right when no other call met theirs:  *)
(* the MAC is out of reset with its pins and delays, and after ConfigureCRT,   *)
(* SetMode and Enable of a mode the CRT shows it and DisplayPort carries it.   *)
MacUp ==
  /\ reg[RstC] \cap {2, 5} = {} /\ 8 \notin reg[Clk1] /\ reg[<<"delay", "scu1">>] = {1000}
  /\ reg[<<"pin18", "scu1">>] = {0} /\ reg[<<"pin19", "scu1">>] = {0}
  /\ reg[<<"drive5", "scu1">>] = {0, 2}
Shown(m) ==
  /\ Live("gfx", reg) /\ {9, 11} \subseteq reg[Dac] /\ 10 \in reg[DpDac]
  /\ reg[<<"crt1clk", "scu0">>] = {m} /\ reg[<<"timing", "gfx">>] = {m} /\ reg[<<"de0", "mcu">>] = {m}
  /\ {24, 28} \subseteq reg[<<"source", "dp">>] /\ 0 \in reg[Ctrl1] /\ reg[Ctrl2] = {0}
UntracedWork ==
  /\ mac /\ "net" \notin overlapped => MacUp
  /\ screen[1] = "on" /\ bootPc["gfx"] = 0 => Shown(screen[2])
=============================================================================
