-------------------------- MODULE BringupPrograms ---------------------------
(* The bring-up calls of hal/usb/vhub, hal/usb/ehci, hal/ast2700net and        *)
(* hal/aspeedgfx as programs of register accesses.  A register's value is the  *)
(* set of its bits, or {m} for a value that belongs to display mode m.         *)
EXTENDS Integers, Sequences

CONSTANTS
  Ports,            \* the vHub ports in use, of PortTable
  Modes,            \* display modes by index; the CRT clock reaches all but Odd
  MaxBringups,      \* bound: calls in a row
  MaxMet,           \* bound: a call may meet another only among the first MaxMet
  DeadSets          \* sets of units that never clock
ASSUME BringupAssumption ==
  /\ Ports \subseteq {"A1", "B1", "A0", "B0"} /\ Modes \subseteq Nat
  /\ MaxBringups \in Nat /\ MaxMet \in 0 .. MaxBringups
  /\ DeadSets \subseteq SUBSET {"A1", "B1", "A0", "B0", "D", "ehci"}

Packages == {"vhub", "ehci", "net", "gfx"}
SCUs == {"scu0", "scu1"}
Odd == 99

-----------------------------------------------------------------------------
(* The ports and their wiring; a PHY is named after the unit it is in.         *)
PortTable ==
  [p \in {"A1", "B1", "A0", "B0"} |->
     CASE p = "A1" -> [clock |-> 14, reset |-> 0, mask |-> {24, 25, 2, 3}, bits |-> {2},
                       phyReset |-> {}, phy |-> "A1", quirk |-> FALSE]
       [] p = "B1" -> [clock |-> 7, reset |-> 3, mask |-> {28, 29, 6, 7}, bits |-> {6},
                       phyReset |-> {}, phy |-> "B1", quirk |-> FALSE]
       [] p = "A0" -> [clock |-> 14, reset |-> 6, mask |-> {24, 25}, bits |-> {},
                       phyReset |-> {0}, phy |-> "A1", quirk |-> TRUE]
       [] p = "B0" -> [clock |-> 7, reset |-> 7, mask |-> {28, 29}, bits |-> {},
                       phyReset |-> {3}, phy |-> "B1", quirk |-> TRUE]]

(* A register is its name and the unit it is in.                               *)
Mux0 == <<"mux", "scu0">>
Mux1 == <<"mux", "scu1">>
RstA == <<"rst1", "scu0">>
RstB == <<"rst2", "scu0">>
RstC == <<"rst1", "scu1">>
RstD == <<"rst2", "scu1">>
Clk0 == <<"clk", "scu0">>
Clk1 == <<"clk", "scu1">>
Clk2 == <<"clk2", "scu1">>
Dac == <<"dac", "scu0">>
DpDac == <<"dpdac", "scu1">>
Unit(u) ==
  CASE u \in DOMAIN PortTable -> {<<n, u>> : n \in {"ctrl", "phyctrl", "swreset", "sts2", "sts3"}}
    [] u = "D" -> {<<n, u>> : n \in {"ctrl", "phyctrl", "sts2", "sts3"}}
    [] u = "ehci" -> {<<n, u>> : n \in {"cmd", "flag", "portsc"}}
    [] u = "gfx" -> {<<n, u>> : n \in {"ctrl1", "ctrl2", "timing", "addr", "cursor"}}
    [] u = "dp" -> {<<"source", u>>, <<"vlink", u>>}
    [] u = "mcu" -> {<<n, u>> : n \in {"ctrl", "int", "de0"}}
    [] u = "scu0" -> {Mux0, RstA, RstB, Clk0, Dac}
                     \cup {<<n, u>> : n \in {"sel2", "crt1clk", "pcie0", "pcie1"}}
    [] u = "scu1" -> {Mux1, RstC, RstD, Clk1, Clk2, DpDac}
                     \cup {<<n, u>> : n \in {"dpclk", "pin18", "pin19", "drive5", "delay"}}
Units == Ports \cup {PortTable[p].phy : p \in Ports} \cup SCUs \cup {"D", "ehci", "gfx", "dp", "mcu"}
Registers == UNION {Unit(u) : u \in Units}

(* What stops a unit's clock, and the reset that clears its registers: the     *)
(* CRT's leaves them as they are.                                              *)
Gates(u) ==
  CASE u \in DOMAIN PortTable ->
         {<<Clk0, PortTable[u].clock>>, <<RstB, PortTable[u].reset>>}
         \cup {<<RstB, b>> : b \in PortTable[u].phyReset}
    [] u \in {"D", "ehci"} -> {<<Clk2, 18>>, <<RstD, 29>>}
    [] u = "gfx" -> {<<Clk0, 20>>, <<RstA, 13>>}
    [] OTHER -> {}
ResetOf(u) ==
  CASE u \in DOMAIN PortTable -> <<RstB, PortTable[u].reset>>
    [] u \in {"D", "ehci"} -> <<RstD, 29>>
    [] OTHER -> <<>>

-----------------------------------------------------------------------------
(* Accesses, and what the traces expect of a register after one.               *)
O(op, r, clr, set) ==
  [op |-> op, r |-> r, clr |-> clr, set |-> set, wantSet |-> {}, wantClr |-> {}]
Want(o, set, clr) == [o EXCEPT !.wantSet = set, !.wantClr = clr]
Unlock(s) == O("unlock", <<"protect", s>>, {}, {})
Lock(s) == O("lock", <<"protect", s>>, {}, {})
Put(r, v) == O("put", r, {}, v)
Raise(r, v) == O("assert", r, {}, v)      \* write 1 to set: 0x200, 0x220, 0x240
Clear(r, v) == O("clear", r, {}, v)        \* write 1 to clear: the same, at +4
Load(r) == O("load", r, {}, {})
Update(r, clr, set) == O("store", r, clr, set)
MaskWrite32(r, mask, v) == <<Load(r), Update(r, mask, v)>>
SetBits32(r, v) == <<Load(r), Update(r, {}, v)>>
ClearBits32(r, v) == <<Load(r), Update(r, v, {})>>
Checked(r, mask, v) == <<Load(r), Want(Update(r, mask, v), v, mask \ v)>>

Phy(u) == Checked(<<"sts2", u>>, {26, 27}, {26, 27}) \o Checked(<<"sts3", u>>, {21, 22}, {22})

(* Mutant: the reset pulse takes in the PHY's, and with it the port that shares *)
(* the PHY.                                                                    *)
PulsePhyReset(p) ==
  LET t == PortTable[p]
      ctrl == <<"ctrl", p>>  sw == <<"swreset", p>>
      released == {t.reset} \cup t.phyReset
  IN <<Unlock("scu0")>> \o Checked(Mux0, t.mask, t.bits)
     \o <<Want(Raise(RstB, released), released, {}),
          Want(Clear(Clk0, {t.clock}), {}, {t.clock}),
          Want(Clear(RstB, released), {}, released), Lock("scu0")>>
     \o Phy(t.phy)
     \o <<Load(ctrl), Want(Update(ctrl, {}, {11}), {11}, {}), Update(ctrl, {}, {})>>
     \o Checked(<<"phyctrl", p>>, {}, {4})
     \o <<Want(Put(ctrl, {31, 11}), {31, 11}, {}), Put(sw, {0}), Want(Put(sw, {}), {}, {0})>>
     \o IF t.quirk THEN Checked(<<"phyctrl", p>>, {}, {13}) ELSE <<>>

VhubInitSteps(p) ==
  LET t == PortTable[p]
      ctrl == <<"ctrl", p>>  sw == <<"swreset", p>>
      released == {t.reset} \cup t.phyReset
  IN <<Unlock("scu0")>> \o Checked(Mux0, t.mask, t.bits)
     \o <<Want(Raise(RstB, {t.reset}), {t.reset}, {}),
          Want(Clear(Clk0, {t.clock}), {}, {t.clock}),
          Want(Clear(RstB, released), {}, released), Lock("scu0")>>
     \o Phy(t.phy)
     \o <<Load(ctrl), Want(Update(ctrl, {}, {11}), {11}, {}), Update(ctrl, {}, {})>>
     \o Checked(<<"phyctrl", p>>, {}, {4})
     \o <<Want(Put(ctrl, {31, 11}), {31, 11}, {}), Put(sw, {0}), Want(Put(sw, {}), {}, {0})>>
     \o IF t.quirk THEN Checked(<<"phyctrl", p>>, {}, {13}) ELSE <<>>

EhciInitSteps ==
  <<Unlock("scu1")>> \o Checked(Mux1, {2, 3}, {3})
  \o <<Want(Raise(RstD, {29}), {29}, {}), Want(Clear(Clk2, {18}), {}, {18}),
       Want(Clear(RstD, {29}), {}, {29}), Lock("scu1")>>
  \o Phy("D") \o Checked(<<"phyctrl", "D">>, {}, {10, 5}) \o Checked(<<"ctrl", "D">>, {}, {31, 11})
  \o SetBits32(<<"cmd", "ehci">>, {1})
  \o <<Want(O("hcreset", <<"cmd", "ehci">>, {}, {}), {}, {1}),
       Want(Put(<<"flag", "ehci">>, {0}), {0}, {})>>
  \o Checked(<<"portsc", "ehci">>, {}, {12}) \o Checked(<<"cmd", "ehci">>, {}, {0})

EnableMAC0RGMII ==
  <<Unlock("scu1"), Clear(RstC, {2, 5}), Clear(Clk1, {8})>>
  \o MaskWrite32(<<"pin18", "scu1">>, {0, 1, 2}, {0}) \o MaskWrite32(<<"pin19", "scu1">>, {0, 1, 2}, {0})
  \o MaskWrite32(<<"drive5", "scu1">>, {0, 1, 2}, {0, 2})
  \o <<Put(<<"delay", "scu1">>, {1000}), Lock("scu1")>>

(* The display.  Whatever belongs to mode m is {m}.                            *)
DacOn == SetBits32(Dac, {9, 11})
TakeoverDP == SetBits32(<<"source", "dp">>, {24, 28})
configureCRTClocksFor(m) ==
  <<Unlock("scu0")>> \o SetBits32(<<"sel2", "scu0">>, {14})
  \o <<Put(<<"crt1clk", "scu0">>, {m}), Lock("scu0"), Unlock("scu1")>>
  \o SetBits32(DpDac, {10}) \o <<Put(<<"dpclk", "scu1">>, {1}), Lock("scu1")>>
ConfigureCRTOnly(m) ==
  <<Unlock("scu0"), Raise(Clk0, {20}), Raise(RstA, {13}), Lock("scu0")>>
  \o IF m = Odd THEN <<>>
     ELSE configureCRTClocksFor(m)
          \o <<Unlock("scu0"), Clear(RstA, {13}), Lock("scu0"), Unlock("scu0"), Clear(Clk0, {20})>>
          \o DacOn \o <<Lock("scu0")>>
DE0(m) == <<Put(<<"de0", "mcu">>, {m})>>
ConfigureCRT(m) == ConfigureCRTOnly(m) \o IF m = Odd THEN <<>> ELSE DE0(m)

setDPScratchHandoff ==
  SetBits32(<<"pcie0", "scu0">>, {7, 9, 10, 11, 12}) \o SetBits32(<<"pcie1", "scu0">>, {7, 9, 10, 11, 12})
EnableAST2700Display ==
  <<Unlock("scu0"), Clear(Clk0, {3, 5, 17, 18, 20}), Clear(RstA, {13, 28, 29}), Clear(RstB, {12})>>
  \o DacOn \o <<Lock("scu0"), Unlock("scu1")>> \o SetBits32(DpDac, {10}) \o <<Lock("scu1")>>
  \o <<Put(<<"vlink", "dp">>, {1})>>
  \o setDPScratchHandoff \o ClearBits32(<<"source", "dp">>, {24, 28})
StartDPMCU == SetBits32(<<"ctrl", "mcu">>, {8, 12}) \o <<Put(<<"int", "mcu">>, 16 .. 23)>>

Ctrl1 == <<"ctrl1", "gfx">>
Ctrl2 == <<"ctrl2", "gfx">>
SetMode(m) ==
  MaskWrite32(Ctrl1, {1, 2, 7, 8, 9}, {8})
  \o <<Put(<<"timing", "gfx">>, {m}), Put(<<"addr", "gfx">>, {1})>>

(* Mutant: the DP output stays with whoever had it.                            *)
EnableWithoutDP ==
  DacOn \o SetBits32(DpDac, {10}) \o SetBits32(Ctrl1, {0}) \o <<Put(Ctrl2, {0})>>

Enable ==
  DacOn \o SetBits32(DpDac, {10}) \o TakeoverDP \o SetBits32(Ctrl1, {0})
  \o <<Put(Ctrl2, {0}), Put(<<"cursor", "gfx">>, {1})>>
Disable == ClearBits32(Ctrl1, {0}) \o ClearBits32(Ctrl2, {0})
SanitizeCRT == <<Put(Ctrl1, {}), Put(Ctrl2, {})>>

C(op, arg) == [op |-> op, arg |-> arg]
NoCall == C("none", "none")
Calls(k) ==
  CASE k = "vhub" -> {C(op, p) : op \in {"InitSteps", "Connect", "Disconnect"}, p \in Ports}
    [] k = "ehci" -> {C("InitSteps", "ehci")}
    [] k = "net" -> {C("EnableMAC0RGMII", "mac")}
    [] k = "gfx" ->
         {C(op, m) : op \in {"ConfigureCRT", "ConfigureCRTOnly", "SetMode"}, m \in Modes}
         \cup {C(op, 5) : op \in {"EnableAST2700Display", "ConfigureAST2700DP800x600",
                                   "StartDPMCU", "Enable", "Disable", "SanitizeCRT"}}

ProgramOf(k, c) ==
  CASE k = "vhub" /\ c.op = "InitSteps" -> VhubInitSteps(c.arg)
    [] c.op = "Connect" -> SetBits32(<<"ctrl", c.arg>>, {0, 3})
    [] c.op = "Disconnect" -> ClearBits32(<<"ctrl", c.arg>>, {0})
    [] k = "ehci" -> EhciInitSteps
    [] k = "net" -> EnableMAC0RGMII
    [] c.op = "ConfigureCRT" -> ConfigureCRT(c.arg)
    [] c.op = "ConfigureCRTOnly" -> ConfigureCRTOnly(c.arg)
    [] c.op = "SetMode" -> SetMode(c.arg)
    [] c.op = "EnableAST2700Display" -> EnableAST2700Display
    [] c.op = "ConfigureAST2700DP800x600" ->
         EnableAST2700Display \o configureCRTClocksFor(5) \o DE0(5)
    [] c.op = "StartDPMCU" -> StartDPMCU
    [] c.op = "Enable" -> Enable
    [] c.op = "Disable" -> Disable
    [] c.op = "SanitizeCRT" -> SanitizeCRT
Programs == [k \in Packages |-> [c \in Calls(k) |-> ProgramOf(k, c)]]
=============================================================================
