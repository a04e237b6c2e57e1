---------------------------- MODULE BringupProofs ----------------------------
(* Proofs about the bring-up calls on the SCUs they share, for any number of  *)
(* calls, any of the ports and any display modes.                             *)
EXTENDS Bringup, SequenceTheorems, TLAPS

-----------------------------------------------------------------------------
(* Who writes what.  Every register has one package that writes it, but for   *)
(* RstB, which the display may only release, and Clk0, where it stops and     *)
(* starts clocks of its own.                                                  *)
AllPorts == {"A1", "B1", "A0", "B0"}
At(x, u) == <<x, u>>
Owns(k, r) ==
  \/ k = "vhub" /\ (r = Mux0 \/ r[2] \in AllPorts)
  \/ k = "ehci" /\ (r \in {Mux1, Clk2, RstD} \/ r[2] \in {"D", "ehci"})
  \/ k = "net" /\ r \in {RstC, Clk1, <<"pin18", "scu1">>, <<"pin19", "scu1">>,
                         <<"drive5", "scu1">>, <<"delay", "scu1">>}
  \/ /\ k = "gfx"
     /\ \/ r \in {Dac, DpDac, RstA, <<"sel2", "scu0">>, <<"crt1clk", "scu0">>,
                  <<"pcie0", "scu0">>, <<"pcie1", "scu0">>, <<"dpclk", "scu1">>}
        \/ r[2] \in {"gfx", "dp", "mcu"}
Fits(k, o) ==
  \/ o.op \in {"unlock", "lock"} /\ o.r \in {<<"protect", "scu0">>, <<"protect", "scu1">>}
  \/ /\ o.op \in {"load", "put", "store", "clear"} /\ Owns(k, o.r)
  \/ o.op = "hcreset" /\ k = "ehci" /\ o.r = <<"cmd", "ehci">>
  \/ o.op = "assert" /\ k = "vhub" /\ o.r = RstB
  \/ o.op = "assert" /\ k = "ehci" /\ o.r = RstD
  \/ o.op = "assert" /\ k = "gfx" /\ (o.r = RstA \/ (o.r = Clk0 /\ o.set = {20}))
  \/ o.op = "clear" /\ k = "vhub" /\ o.r \in {RstB, Clk0}
  \/ /\ o.op = "clear" /\ k = "gfx"
     /\ (o.r = RstB /\ o.set = {12}) \/ (o.r = Clk0 /\ o.set \cap {7, 14} = {})

-----------------------------------------------------------------------------
(* The invariants.                                                            *)
(* The types, with what the calls under way need: each is one of its          *)
(* package's calls and its access one of its program's, and a call that has   *)
(* met no other is alone.                                                     *)
Types ==
  /\ scuKey \in [SCUs -> BOOLEAN] /\ DOMAIN reg = Registers
  /\ dead \subseteq AllPorts \cup {"D", "ehci"}
  /\ bootPc \in [Packages -> Nat] /\ DOMAIN bootCall = Packages /\ DOMAIN tmp = Packages
  /\ ok \in [Packages -> BOOLEAN]
  /\ \A k \in Packages : bootPc[k] # 0 => bootCall[k] \in Calls(k) /\ bootPc[k] <= Len(Programs[k][bootCall[k]])
  /\ bootCalls \in 0 .. MaxBringups
  /\ DOMAIN report = Ports \cup {"ehci"} /\ mac \in BOOLEAN
  /\ screen \in {"off", "clocked", "timed", "on"} \X Nat
  /\ overlapped \subseteq Packages
  /\ \A k \in Packages : bootPc[k] # 0 /\ k \notin overlapped => \A l \in Packages \ {k} : bootPc[l] = 0

(* A port without its PHY, and a PHY.                                         *)
PortUp(p) ==
  LET t == PortTable[p] IN
  /\ p \notin dead /\ t.clock \notin reg[Clk0] /\ t.reset \notin reg[RstB]
  /\ reg[Mux0] \cap t.mask = t.bits
  /\ {31, 11} \subseteq reg[At("ctrl", p)] /\ 4 \in reg[At("phyctrl", p)]
  /\ reg[At("swreset", p)] = {} /\ (t.quirk => 13 \in reg[At("phyctrl", p)])
PhyUp(u) ==
  /\ u \notin dead /\ PortTable[u].clock \notin reg[Clk0] /\ PortTable[u].reset \notin reg[RstB]
  /\ {26, 27} \subseteq reg[At("sts2", u)]
  /\ 22 \in reg[At("sts3", u)] /\ 21 \notin reg[At("sts3", u)]

InitOf(p) == bootPc["vhub"] # 0 /\ bootCall["vhub"] = C("InitSteps", p)

(* What the first n - 1 accesses of InitSteps have achieved, if all were OK.  *)
VhubDone(p, n) ==
  LET t == PortTable[p] IN
  /\ n > 3 => reg[Mux0] \cap t.mask = t.bits
  /\ n > 5 => t.clock \notin reg[Clk0]
  /\ n > 6 => ({t.reset} \cup t.phyReset) \cap reg[RstB] = {}
  /\ n > 9 => t.phy \notin dead /\ {26, 27} \subseteq reg[At("sts2", t.phy)]
  /\ n > 11 => 22 \in reg[At("sts3", t.phy)] /\ 21 \notin reg[At("sts3", t.phy)]
  /\ n > 13 => p \notin dead
  /\ n > 16 => 4 \in reg[At("phyctrl", p)]
  /\ n > 17 => {31, 11} \subseteq reg[At("ctrl", p)]
  /\ n > 19 => reg[At("swreset", p)] = {}
  /\ n = 21 => 4 \in tmp["vhub"]
  /\ n > 21 => 13 \in reg[At("phyctrl", p)]
(* The value a read-modify-write is about to store holds the bits that others *)
(* rely on.                                                                   *)
VhubLoaded ==
  /\ \A p \in Ports : InitOf(p) /\ bootPc["vhub"] = 3 => tmp["vhub"] = reg[Mux0]
  /\ \A p \in Ports : bootPc["vhub"] = 2 /\ bootCall["vhub"] \in {C("Connect", p), C("Disconnect", p)}
                            /\ report[p] = "ok" => {31, 11} \subseteq tmp["vhub"]
Shares(q) == \E p \in Ports : InitOf(p) /\ PortTable[p].phy = PortTable[q].phy
(* A port whose InitSteps were OK is up, and so is its PHY, unless InitSteps  *)
(* of the port that shares it are under way: these reset the PHY first.       *)
VhubInv ==
  /\ \A p \in Ports : InitOf(p) => report[p] = "none" /\ (ok["vhub"] => VhubDone(p, bootPc["vhub"]))
  /\ \A q \in Ports : report[q] = "ok" => PortUp(q) /\ (~Shares(q) => PhyUp(PortTable[q].phy))
  /\ VhubLoaded

(* The same for the host controller's InitSteps, which nothing else undoes.   *)
EhciDone(n) ==
  /\ n > 3 => reg[Mux1] = {3}
  /\ n > 5 => 18 \notin reg[Clk2]
  /\ n > 6 => 29 \notin reg[RstD]
  /\ n > 9 => "D" \notin dead /\ {26, 27} \subseteq reg[At("sts2", "D")]
  /\ n > 11 => 22 \in reg[At("sts3", "D")] /\ 21 \notin reg[At("sts3", "D")]
  /\ n > 13 => {10, 5} \subseteq reg[At("phyctrl", "D")]
  /\ n > 15 => {31, 11} \subseteq reg[At("ctrl", "D")]
  /\ n = 18 /\ "ehci" \notin dead => 1 \in reg[At("cmd", "ehci")]
  /\ n \in 19 .. 23 /\ "ehci" \notin dead => reg[At("cmd", "ehci")] = {}
  /\ n > 19 => "ehci" \notin dead /\ reg[At("flag", "ehci")] = {0}
  /\ n > 21 => 12 \in reg[At("portsc", "ehci")]
  /\ n = 23 => tmp["ehci"] = {}
  /\ n > 23 => reg[At("cmd", "ehci")] = {0}
EhciInv ==
  /\ reg[Mux1] \subseteq {2, 3}
  /\ bootPc["ehci"] = 3 => tmp["ehci"] \subseteq {2, 3}
  /\ bootPc["ehci"] # 0 => report["ehci"] = "none" /\ (ok["ehci"] => EhciDone(bootPc["ehci"]))
  /\ report["ehci"] = "ok" => EhciDone(24)

(* A call that has met no other.                                              *)
Alone(k) == bootPc[k] # 0 /\ k \notin overlapped
(* What the first n - 1 accesses of EnableMAC0RGMII have achieved, if no      *)
(* other call had the SCUs meanwhile: it reads nothing back, and a call that  *)
(* ends turns the key under it.                                               *)
NetDone(n) ==
  /\ n > 2 => reg[RstC] \cap {2, 5} = {}
  /\ n > 3 => 8 \notin reg[Clk1]
  /\ n > 5 => reg[At("pin18", "scu1")] = {0}
  /\ n > 7 => reg[At("pin19", "scu1")] = {0}
  /\ n > 9 => reg[At("drive5", "scu1")] = {0, 2}
  /\ n > 10 => reg[At("delay", "scu1")] = {1000}
NetInv ==
  /\ \A x \in {"pin18", "pin19", "drive5"} : reg[At(x, "scu1")] \subseteq 0 .. 2
  /\ bootPc["net"] \in {5, 7, 9} => tmp["net"] \subseteq 0 .. 2
  /\ Alone("net") => NetDone(bootPc["net"]) /\ (bootPc["net"] > 1 => scuKey["scu1"])
  /\ bootPc["net"] # 0 => ~mac
  /\ mac /\ "net" \notin overlapped => NetDone(11)

(* A display that is clocked for mode m, one with its timing, one that is on. *)
Clocked(m) ==
  /\ 20 \notin reg[Clk0] /\ 13 \notin reg[RstA] /\ {9, 11} \subseteq reg[Dac] /\ 10 \in reg[DpDac]
  /\ reg[At("crt1clk", "scu0")] = {m} /\ reg[At("de0", "mcu")] = {m}
Timed(m) == reg[At("timing", "gfx")] = {m}
On == {24, 28} \subseteq reg[At("source", "dp")] /\ 0 \in reg[Ctrl1] /\ reg[Ctrl2] = {0}
(* What the first n - 1 accesses of the display's calls have achieved.        *)
CrtDone(m, n) ==
  /\ n \in (2 .. 4) \cup (6 .. 9) \cup (16 .. 17) \cup (19 .. 22) => scuKey["scu0"]
  /\ n \in 11 .. 14 => scuKey["scu1"]
  /\ n > 8 => reg[At("crt1clk", "scu0")] = {m}
  /\ n > 12 => 10 \in reg[DpDac]
  /\ n > 16 => 13 \notin reg[RstA]
  /\ n > 19 => 20 \notin reg[Clk0]
  /\ n > 21 => {9, 11} \subseteq reg[Dac]
  /\ n > 23 => reg[At("de0", "mcu")] = {m}
DpDone(n) ==
  /\ n \in (2 .. 7) \cup (20 .. 23) => scuKey["scu0"]
  /\ n \in (9 .. 11) \cup (25 .. 28) => scuKey["scu1"]
  /\ n > 2 => 20 \notin reg[Clk0]
  /\ n > 3 => 13 \notin reg[RstA]
  /\ n > 6 => {9, 11} \subseteq reg[Dac]
  /\ n > 10 => 10 \in reg[DpDac]
  /\ n > 22 => reg[At("crt1clk", "scu0")] = {5}
  /\ n > 29 => reg[At("de0", "mcu")] = {5}
EnableDone(n) ==
  /\ n > 6 => {24, 28} \subseteq reg[At("source", "dp")]
  /\ n > 8 => 0 \in reg[Ctrl1]
  /\ n > 9 => reg[Ctrl2] = {0}
(* What the display shows holds while it rests and during the calls that      *)
(* leave it as it is; the others set it up anew.                              *)
Runs(ops) == bootPc["gfx"] = 0 \/ bootCall["gfx"].op \in ops
ScreenInv ==
  /\ screen[1] # "off" /\ Runs({"SetMode", "Enable", "StartDPMCU"}) => Clocked(screen[2])
  /\ screen[1] \in {"timed", "on"} /\ Runs({"Enable", "StartDPMCU"}) => Timed(screen[2])
  /\ screen[1] = "on" /\ Runs({"Enable", "StartDPMCU"}) => On
GfxInv ==
  LET n == bootPc["gfx"]  m == bootCall["gfx"].arg IN
  /\ bootPc["gfx"] = 0 \/ Alone("gfx") => ScreenInv
  /\ Alone("gfx") =>
       /\ bootCall["gfx"].op = "ConfigureCRT" /\ m # Odd => CrtDone(m, n)
       /\ bootCall["gfx"].op = "ConfigureAST2700DP800x600" => DpDone(n)
       /\ bootCall["gfx"].op = "SetMode" /\ screen[1] # "off" /\ n > 3 => Timed(m)
       /\ bootCall["gfx"].op = "Enable" /\ screen[1] # "off" => EnableDone(n)

-----------------------------------------------------------------------------
(* The programs, access by access.                                            *)

(* An InitSteps of the vHub up to its core's start, and the accesses of a     *)
(* port with the quirk.                                                       *)
LEMMA VhubProgram ==
  ASSUME NEW p
  PROVE  LET P == VhubInitSteps(p)  t == PortTable[p]
             ctrl == At("ctrl", p)  sw == At("swreset", p)  pctl == At("phyctrl", p)
             sts2 == At("sts2", t.phy)  sts3 == At("sts3", t.phy)
         IN /\ (Len(P) = 21 /\ t.quirk) \/ (Len(P) = 19 /\ ~t.quirk)
            /\ P[1] = Unlock("scu0")
            /\ P[2] = Load(Mux0) /\ P[3] = Want(Update(Mux0, t.mask, t.bits), t.bits, t.mask \ t.bits)
            /\ P[4] = Want(Raise(RstB, {t.reset}), {t.reset}, {})
            /\ P[5] = Want(Clear(Clk0, {t.clock}), {}, {t.clock})
            /\ P[6] = Want(Clear(RstB, {t.reset} \cup t.phyReset), {}, {t.reset} \cup t.phyReset)
            /\ P[7] = Lock("scu0")
            /\ P[8] = Load(sts2)
            /\ P[9] = Want(Update(sts2, {26, 27}, {26, 27}), {26, 27}, {26, 27} \ {26, 27})
            /\ P[10] = Load(sts3)
            /\ P[11] = Want(Update(sts3, {21, 22}, {22}), {22}, {21, 22} \ {22})
            /\ P[12] = Load(ctrl) /\ P[13] = Want(Update(ctrl, {}, {11}), {11}, {})
            /\ P[14] = Update(ctrl, {}, {})
            /\ P[15] = Load(pctl) /\ P[16] = Want(Update(pctl, {}, {4}), {4}, {} \ {4})
            /\ P[17] = Want(Put(ctrl, {31, 11}), {31, 11}, {})
            /\ P[18] = Put(sw, {0}) /\ P[19] = Want(Put(sw, {}), {}, {0})
            /\ t.quirk => P[20] = Load(pctl) /\ P[21] = Want(Update(pctl, {}, {13}), {13}, {} \ {13})
<1> HIDE DEF PortTable
<1> QED
  BY DEF At, VhubInitSteps, Checked, Phy

(* The host controller's InitSteps.                                           *)
LEMMA EhciProgram ==
  LET P == EhciInitSteps
      ctrl == At("ctrl", "D")  pctl == At("phyctrl", "D")
      sts2 == At("sts2", "D")  sts3 == At("sts3", "D")
      cmd == At("cmd", "ehci")  flag == At("flag", "ehci")  portsc == At("portsc", "ehci")
  IN /\ Len(P) = 23
     /\ P[1] = Unlock("scu1")
     /\ P[2] = Load(Mux1) /\ P[3] = Want(Update(Mux1, {2, 3}, {3}), {3}, {2, 3} \ {3})
     /\ P[4] = Want(Raise(RstD, {29}), {29}, {})
     /\ P[5] = Want(Clear(Clk2, {18}), {}, {18}) /\ P[6] = Want(Clear(RstD, {29}), {}, {29})
     /\ P[7] = Lock("scu1")
     /\ P[8] = Load(sts2)
     /\ P[9] = Want(Update(sts2, {26, 27}, {26, 27}), {26, 27}, {26, 27} \ {26, 27})
     /\ P[10] = Load(sts3)
     /\ P[11] = Want(Update(sts3, {21, 22}, {22}), {22}, {21, 22} \ {22})
     /\ P[12] = Load(pctl) /\ P[13] = Want(Update(pctl, {}, {10, 5}), {10, 5}, {} \ {10, 5})
     /\ P[14] = Load(ctrl) /\ P[15] = Want(Update(ctrl, {}, {31, 11}), {31, 11}, {} \ {31, 11})
     /\ P[16] = Load(cmd) /\ P[17] = Update(cmd, {}, {1})
     /\ P[18] = Want(O("hcreset", cmd, {}, {}), {}, {1})
     /\ P[19] = Want(Put(flag, {0}), {0}, {})
     /\ P[20] = Load(portsc) /\ P[21] = Want(Update(portsc, {}, {12}), {12}, {} \ {12})
     /\ P[22] = Load(cmd) /\ P[23] = Want(Update(cmd, {}, {0}), {0}, {} \ {0})
  BY DEF At, EhciInitSteps, Checked, Phy, SetBits32

(* EnableMAC0RGMII.                                                           *)
LEMMA NetProgram ==
  LET P == EnableMAC0RGMII
      pin18 == At("pin18", "scu1")  pin19 == At("pin19", "scu1")  drive5 == At("drive5", "scu1")
  IN /\ Len(P) = 11
     /\ P[1] = Unlock("scu1")
     /\ P[2] = Clear(RstC, {2, 5}) /\ P[3] = Clear(Clk1, {8})
     /\ P[4] = Load(pin18) /\ P[5] = Update(pin18, {0, 1, 2}, {0})
     /\ P[6] = Load(pin19) /\ P[7] = Update(pin19, {0, 1, 2}, {0})
     /\ P[8] = Load(drive5) /\ P[9] = Update(drive5, {0, 1, 2}, {0, 2})
     /\ P[10] = Put(At("delay", "scu1"), {1000}) /\ P[11] = Lock("scu1")
  BY DEF At, EnableMAC0RGMII, MaskWrite32

(* ConfigureCRT in a mode that has a pixel clock.                             *)
LEMMA CrtProgram ==
  ASSUME NEW m, m # Odd
  PROVE  LET P == ConfigureCRT(m)  sel2 == At("sel2", "scu0")
         IN /\ Len(P) = 23
            /\ P[1] = Unlock("scu0") /\ P[2] = Raise(Clk0, {20}) /\ P[3] = Raise(RstA, {13})
            /\ P[4] = Lock("scu0")
            /\ P[5] = Unlock("scu0") /\ P[6] = Load(sel2) /\ P[7] = Update(sel2, {}, {14})
            /\ P[8] = Put(At("crt1clk", "scu0"), {m}) /\ P[9] = Lock("scu0")
            /\ P[10] = Unlock("scu1") /\ P[11] = Load(DpDac) /\ P[12] = Update(DpDac, {}, {10})
            /\ P[13] = Put(At("dpclk", "scu1"), {1}) /\ P[14] = Lock("scu1")
            /\ P[15] = Unlock("scu0") /\ P[16] = Clear(RstA, {13}) /\ P[17] = Lock("scu0")
            /\ P[18] = Unlock("scu0") /\ P[19] = Clear(Clk0, {20})
            /\ P[20] = Load(Dac) /\ P[21] = Update(Dac, {}, {9, 11}) /\ P[22] = Lock("scu0")
            /\ P[23] = Put(At("de0", "mcu"), {m})
  BY DEF At, ConfigureCRT, ConfigureCRTOnly, configureCRTClocksFor, DacOn, DE0, SetBits32

(* ConfigureAST2700DP800x600, which ends in the clocks of mode 5.             *)
LEMMA DpProgram ==
  LET P == EnableAST2700Display \o configureCRTClocksFor(5) \o DE0(5)
      pcie0 == At("pcie0", "scu0")  pcie1 == At("pcie1", "scu0")  source == At("source", "dp")
      sel2 == At("sel2", "scu0")  handoff == {7, 9, 10, 11, 12}
  IN /\ Len(P) = 29
     /\ P[1] = Unlock("scu0") /\ P[2] = Clear(Clk0, {3, 5, 17, 18, 20})
     /\ P[3] = Clear(RstA, {13, 28, 29}) /\ P[4] = Clear(RstB, {12})
     /\ P[5] = Load(Dac) /\ P[6] = Update(Dac, {}, {9, 11}) /\ P[7] = Lock("scu0")
     /\ P[8] = Unlock("scu1") /\ P[9] = Load(DpDac) /\ P[10] = Update(DpDac, {}, {10})
     /\ P[11] = Lock("scu1") /\ P[12] = Put(At("vlink", "dp"), {1})
     /\ P[13] = Load(pcie0) /\ P[14] = Update(pcie0, {}, handoff)
     /\ P[15] = Load(pcie1) /\ P[16] = Update(pcie1, {}, handoff)
     /\ P[17] = Load(source) /\ P[18] = Update(source, {24, 28}, {})
     /\ P[19] = Unlock("scu0") /\ P[20] = Load(sel2) /\ P[21] = Update(sel2, {}, {14})
     /\ P[22] = Put(At("crt1clk", "scu0"), {5}) /\ P[23] = Lock("scu0")
     /\ P[24] = Unlock("scu1") /\ P[25] = Load(DpDac) /\ P[26] = Update(DpDac, {}, {10})
     /\ P[27] = Put(At("dpclk", "scu1"), {1}) /\ P[28] = Lock("scu1")
     /\ P[29] = Put(At("de0", "mcu"), {5})
  BY DEF At, EnableAST2700Display, setDPScratchHandoff, configureCRTClocksFor, DacOn, DE0, SetBits32,
         ClearBits32

(* SetMode.                                                                   *)
LEMMA ModeProgram ==
  ASSUME NEW m
  PROVE  LET P == SetMode(m)
         IN /\ Len(P) = 4
            /\ P[1] = Load(Ctrl1) /\ P[2] = Update(Ctrl1, {1, 2, 7, 8, 9}, {8})
            /\ P[3] = Put(At("timing", "gfx"), {m}) /\ P[4] = Put(At("addr", "gfx"), {1})
  BY DEF At, SetMode, MaskWrite32

(* Enable, which takes the DisplayPort source over.                           *)
LEMMA EnableProgram ==
  LET P == Enable  source == At("source", "dp")
  IN /\ Len(P) = 10
     /\ P[1] = Load(Dac) /\ P[2] = Update(Dac, {}, {9, 11})
     /\ P[3] = Load(DpDac) /\ P[4] = Update(DpDac, {}, {10})
     /\ P[5] = Load(source) /\ P[6] = Update(source, {}, {24, 28})
     /\ P[7] = Load(Ctrl1) /\ P[8] = Update(Ctrl1, {}, {0})
     /\ P[9] = Put(Ctrl2, {0}) /\ P[10] = Put(At("cursor", "gfx"), {1})
  BY DEF At, Enable, DacOn, TakeoverDP, SetBits32

(* The short ones.                                                            *)
LEMMA ShortPrograms ==
  /\ \A r, v : /\ Len(SetBits32(r, v)) = 2
               /\ SetBits32(r, v)[1] = Load(r) /\ SetBits32(r, v)[2] = Update(r, {}, v)
               /\ Len(ClearBits32(r, v)) = 2
               /\ ClearBits32(r, v)[1] = Load(r) /\ ClearBits32(r, v)[2] = Update(r, v, {})
  /\ /\ Len(Disable) = 4
     /\ Disable[1] = Load(Ctrl1) /\ Disable[2] = Update(Ctrl1, {0}, {})
     /\ Disable[3] = Load(Ctrl2) /\ Disable[4] = Update(Ctrl2, {0}, {})
  /\ Len(SanitizeCRT) = 2 /\ SanitizeCRT[1] = Put(Ctrl1, {}) /\ SanitizeCRT[2] = Put(Ctrl2, {})
  /\ /\ Len(StartDPMCU) = 3
     /\ StartDPMCU[1] = Load(At("ctrl", "mcu"))
     /\ StartDPMCU[2] = Update(At("ctrl", "mcu"), {}, {8, 12})
     /\ StartDPMCU[3] = Put(At("int", "mcu"), 16 .. 23)
  BY DEF At, SetBits32, ClearBits32, Disable, SanitizeCRT, StartDPMCU

(* What an access is.                                                         *)
LEMMA OpFields ==
  /\ \A r : Load(r).op = "load" /\ Load(r).r = r
  /\ \A r, v : /\ Put(r, v).op = "put" /\ Put(r, v).r = r /\ Put(r, v).set = v
               /\ Put(r, v).wantSet = {} /\ Put(r, v).wantClr = {}
               /\ Raise(r, v).op = "assert" /\ Raise(r, v).r = r /\ Raise(r, v).set = v
               /\ Raise(r, v).wantSet = {} /\ Raise(r, v).wantClr = {}
               /\ Clear(r, v).op = "clear" /\ Clear(r, v).r = r /\ Clear(r, v).set = v
               /\ Clear(r, v).wantSet = {} /\ Clear(r, v).wantClr = {}
  /\ \A r, c, v : /\ Update(r, c, v).op = "store" /\ Update(r, c, v).r = r
                  /\ Update(r, c, v).clr = c /\ Update(r, c, v).set = v
                  /\ Update(r, c, v).wantSet = {} /\ Update(r, c, v).wantClr = {}
  BY DEF Load, Put, Update, Raise, Clear, O

(* The same for an access whose value InitSteps reads back.                   *)
LEMMA WantFields ==
  /\ \A r, v, a, b :
       /\ Want(Put(r, v), a, b).op = "put" /\ Want(Put(r, v), a, b).r = r
       /\ Want(Put(r, v), a, b).set = v
       /\ Want(Put(r, v), a, b).wantSet = a /\ Want(Put(r, v), a, b).wantClr = b
  /\ \A r, v, a, b :
       /\ Want(Raise(r, v), a, b).op = "assert" /\ Want(Raise(r, v), a, b).r = r
       /\ Want(Raise(r, v), a, b).set = v
       /\ Want(Raise(r, v), a, b).wantSet = a /\ Want(Raise(r, v), a, b).wantClr = b
  /\ \A r, v, a, b :
       /\ Want(Clear(r, v), a, b).op = "clear" /\ Want(Clear(r, v), a, b).r = r
       /\ Want(Clear(r, v), a, b).set = v
       /\ Want(Clear(r, v), a, b).wantSet = a /\ Want(Clear(r, v), a, b).wantClr = b
  /\ \A r, c, v, a, b :
       /\ Want(Update(r, c, v), a, b).op = "store" /\ Want(Update(r, c, v), a, b).r = r
       /\ Want(Update(r, c, v), a, b).clr = c /\ Want(Update(r, c, v), a, b).set = v
       /\ Want(Update(r, c, v), a, b).wantSet = a /\ Want(Update(r, c, v), a, b).wantClr = b
  /\ \A r, a, b :
       LET o == Want(O("hcreset", r, {}, {}), a, b)
       IN o.op = "hcreset" /\ o.r = r /\ o.wantSet = a /\ o.wantClr = b
  BY DEF Put, Update, Raise, Clear, Want, O

(* The key's accesses name the protection register of their SCU.              *)
LEMMA KeyFields ==
  /\ Unlock("scu0").op = "unlock" /\ Unlock("scu0").r = <<"protect", "scu0">>
  /\ Unlock("scu1").op = "unlock" /\ Unlock("scu1").r = <<"protect", "scu1">>
  /\ Lock("scu0").op = "lock" /\ Lock("scu0").r = <<"protect", "scu0">>
  /\ Lock("scu1").op = "lock" /\ Lock("scu1").r = <<"protect", "scu1">>
  BY DEF Unlock, Lock, O

(* What the tables say of a port.                                             *)
LEMMA PortFields ==
  ASSUME NEW p \in AllPorts
  PROVE  /\ PortTable[p].phy \in AllPorts /\ PortTable[p].quirk \in BOOLEAN
         /\ DOMAIN PortTable = AllPorts
  BY DEF PortTable, AllPorts

(* A program each of whose accesses fits.                                     *)
FitsAll(k, P) == P # <<>> /\ \E S : P \in Seq(S) /\ \A o \in S : Fits(k, o)

(* Every access of such a program fits.                                       *)
LEMMA FitsEach ==
  ASSUME NEW k, NEW P, FitsAll(k, P)
  PROVE  Len(P) \in Nat \ {0} /\ \A n \in 1 .. Len(P) : Fits(k, P[n])
<1> PICK S : P \in Seq(S) /\ \A o \in S : Fits(k, o)
  BY DEF FitsAll
<1>1. P # <<>>
  BY DEF FitsAll
<1>2. \A n \in 1 .. Len(P) : P[n] \in S
  OBVIOUS
<1> QED
  BY <1>1, <1>2, EmptySeq

(* Programs that fit, one after the other, and one that is written out.       *)
LEMMA FitsConcat ==
  ASSUME NEW k, NEW P, NEW Q, FitsAll(k, P), FitsAll(k, Q)
  PROVE  FitsAll(k, P \o Q)
<1> PICK S : P \in Seq(S) /\ \A o \in S : Fits(k, o)
  BY DEF FitsAll
<1> PICK T : Q \in Seq(T) /\ \A o \in T : Fits(k, o)
  BY DEF FitsAll
<1> DEFINE U == S \cup T
<1>1. P \in Seq(U) /\ Q \in Seq(U) /\ P # <<>>
  BY DEF FitsAll
<1>2. P \o Q \in Seq(U) /\ P \o Q # <<>>
  BY <1>1, ConcatProperties, ConcatEmptySeq, EmptySeq
<1> QED
  BY <1>2 DEF FitsAll

(* A program written out fits if its accesses do.                             *)
LEMMA FitsTuples ==
  ASSUME NEW k
  PROVE  /\ \A a : Fits(k, a) => FitsAll(k, <<a>>)
         /\ \A a, b : Fits(k, a) /\ Fits(k, b) => FitsAll(k, <<a, b>>)
         /\ \A a, b, c : Fits(k, a) /\ Fits(k, b) /\ Fits(k, c) => FitsAll(k, <<a, b, c>>)
         /\ \A a, b, c, d : Fits(k, a) /\ Fits(k, b) /\ Fits(k, c) /\ Fits(k, d) =>
                             FitsAll(k, <<a, b, c, d>>)
<1>1. ASSUME NEW a, Fits(k, a) PROVE FitsAll(k, <<a>>)
  <2> DEFINE S == {a}
  <2>1. <<a>> \in Seq(S) /\ <<a>> # <<>> /\ \A o \in S : Fits(k, o)
    BY <1>1
  <2> HIDE DEF S
  <2> QED
    BY <2>1 DEF FitsAll
<1>2. ASSUME NEW a, NEW b, Fits(k, a), Fits(k, b) PROVE FitsAll(k, <<a, b>>)
  <2> DEFINE S == {a, b}
  <2>1. <<a, b>> \in Seq(S) /\ <<a, b>> # <<>> /\ \A o \in S : Fits(k, o)
    BY <1>2
  <2> HIDE DEF S
  <2> QED
    BY <2>1 DEF FitsAll
<1>3. ASSUME NEW a, NEW b, NEW c, Fits(k, a), Fits(k, b), Fits(k, c)
      PROVE  FitsAll(k, <<a, b, c>>)
  <2> DEFINE S == {a, b, c}
  <2>1. <<a, b, c>> \in Seq(S) /\ <<a, b, c>> # <<>> /\ \A o \in S : Fits(k, o)
    BY <1>3
  <2> HIDE DEF S
  <2> QED
    BY <2>1 DEF FitsAll
<1>4. ASSUME NEW a, NEW b, NEW c, NEW d, Fits(k, a), Fits(k, b), Fits(k, c), Fits(k, d)
      PROVE  FitsAll(k, <<a, b, c, d>>)
  <2> DEFINE S == {a, b, c, d}
  <2>1. <<a, b, c, d>> \in Seq(S) /\ <<a, b, c, d>> # <<>> /\ \A o \in S : Fits(k, o)
    BY <1>4
  <2> HIDE DEF S
  <2> QED
    BY <2>1 DEF FitsAll
<1> QED
  BY <1>1, <1>2, <1>3, <1>4

(* The accesses of a register that the package owns fit, and so do the locks. *)
LEMMA OwnedFit ==
  ASSUME NEW k, NEW r, Owns(k, r)
  PROVE  /\ Fits(k, Load(r))
         /\ \A v : Fits(k, Put(r, v)) /\ Fits(k, Clear(r, v))
         /\ \A c, v : Fits(k, Update(r, c, v))
         /\ \A v, a, b : Fits(k, Want(Put(r, v), a, b)) /\ Fits(k, Want(Clear(r, v), a, b))
         /\ \A c, v, a, b : Fits(k, Want(Update(r, c, v), a, b))
<1>1. ASSUME NEW o, o.op \in {"load", "put", "store", "clear"}, o.r = r PROVE Fits(k, o)
  BY <1>1, Zenon DEF Fits
<1> QED
  BY <1>1, OpFields, WantFields

(* Any package may turn the key of either SCU.                                *)
LEMMA KeysFit ==
  ASSUME NEW k
  PROVE  /\ Fits(k, Unlock("scu0")) /\ Fits(k, Lock("scu0"))
         /\ Fits(k, Unlock("scu1")) /\ Fits(k, Lock("scu1"))
  BY KeyFields DEF Fits

(* So do a load of such a register and a store of it.                         *)
LEMMA PairsFit ==
  ASSUME NEW k, NEW r, Owns(k, r)
  PROVE  /\ \A c, v : FitsAll(k, MaskWrite32(r, c, v)) /\ FitsAll(k, Checked(r, c, v))
         /\ \A v : FitsAll(k, SetBits32(r, v)) /\ FitsAll(k, ClearBits32(r, v))
<1>1. ASSUME NEW o, Fits(k, o) PROVE FitsAll(k, <<Load(r), o>>)
  BY <1>1, OwnedFit, FitsTuples
<1>2. ASSUME NEW c, NEW v PROVE FitsAll(k, MaskWrite32(r, c, v)) /\ FitsAll(k, Checked(r, c, v))
  BY <1>1, OwnedFit DEF MaskWrite32, Checked
<1>3. ASSUME NEW v PROVE FitsAll(k, SetBits32(r, v)) /\ FitsAll(k, ClearBits32(r, v))
  BY <1>1, OwnedFit DEF SetBits32, ClearBits32
<1> QED
  BY <1>2, <1>3

(* The vHub's InitSteps write the registers of the ports and Mux0.            *)
LEMMA VhubFits ==
  ASSUME NEW p \in AllPorts
  PROVE  FitsAll("vhub", VhubInitSteps(p))
<1> DEFINE t == PortTable[p]
           ctrl == <<"ctrl", p>>
           sw == <<"swreset", p>>
           pctl == <<"phyctrl", p>>
           bits == {t.reset} \cup t.phyReset
           A == <<Unlock("scu0")>>
           B == Checked(Mux0, t.mask, t.bits)
           D == <<Want(Raise(RstB, {t.reset}), {t.reset}, {}), Want(Clear(Clk0, {t.clock}), {}, {t.clock}),
                  Want(Clear(RstB, bits), {}, bits), Lock("scu0")>>
           E == Phy(t.phy)
           F == <<Load(ctrl), Want(Update(ctrl, {}, {11}), {11}, {}), Update(ctrl, {}, {})>>
           G == Checked(pctl, {}, {4})
           H == <<Want(Put(ctrl, {31, 11}), {31, 11}, {}), Put(sw, {0}), Want(Put(sw, {}), {}, {0})>>
           I == Checked(pctl, {}, {13})
<1>1. VhubInitSteps(p) = A \o B \o D \o E \o F \o G \o H \o IF t.quirk THEN I ELSE <<>>
  BY Zenon DEF VhubInitSteps
<1>2. /\ Owns("vhub", Mux0) /\ Owns("vhub", ctrl) /\ Owns("vhub", sw) /\ Owns("vhub", pctl)
      /\ Owns("vhub", <<"sts2", t.phy>>) /\ Owns("vhub", <<"sts3", t.phy>>)
  BY PortFields DEF Owns
<1>3. ASSUME NEW v, NEW a, NEW b
      PROVE  /\ Fits("vhub", Want(Raise(RstB, v), a, b)) /\ Fits("vhub", Want(Clear(RstB, v), a, b))
             /\ Fits("vhub", Want(Clear(Clk0, v), a, b))
  <2>1. /\ Want(Raise(RstB, v), a, b).op = "assert" /\ Want(Raise(RstB, v), a, b).r = RstB
        /\ Want(Clear(RstB, v), a, b).op = "clear" /\ Want(Clear(RstB, v), a, b).r = RstB
        /\ Want(Clear(Clk0, v), a, b).op = "clear" /\ Want(Clear(Clk0, v), a, b).r = Clk0
    BY WantFields
  <2> QED
    BY <2>1 DEF Fits
<1>4. FitsAll("vhub", A) /\ FitsAll("vhub", B) /\ FitsAll("vhub", G) /\ FitsAll("vhub", I)
  BY <1>2, PairsFit, KeysFit, FitsTuples
<1>5. FitsAll("vhub", D)
  BY <1>3, KeysFit, FitsTuples
<1>6. FitsAll("vhub", E)
  BY <1>2, PairsFit, FitsConcat DEF Phy
<1>7. FitsAll("vhub", F)
  BY <1>2, OwnedFit, FitsTuples
<1>8. FitsAll("vhub", H)
  BY <1>2, OwnedFit, FitsTuples
<1> HIDE DEF A, B, D, E, F, G, H, I, t
<1>9. FitsAll("vhub", A \o B \o D \o E \o F \o G \o H)
  BY <1>4, <1>5, <1>6, <1>7, <1>8, FitsConcat
<1>10. A \o B \o D \o E \o F \o G \o H \o <<>> = A \o B \o D \o E \o F \o G \o H
  BY <1>9, ConcatEmptySeq DEF FitsAll
<1> QED
  BY <1>1, <1>4, <1>9, <1>10, FitsConcat

(* The host controller's InitSteps write its own.                             *)
LEMMA EhciFits == FitsAll("ehci", EhciInitSteps)
<1> DEFINE pctl == <<"phyctrl", "D">>
           ctrl == <<"ctrl", "D">>
           cmd == <<"cmd", "ehci">>
           flag == <<"flag", "ehci">>
           portsc == <<"portsc", "ehci">>
           A == <<Unlock("scu1")>>
           B == Checked(Mux1, {2, 3}, {3})
           D == <<Want(Raise(RstD, {29}), {29}, {}), Want(Clear(Clk2, {18}), {}, {18}),
                  Want(Clear(RstD, {29}), {}, {29}), Lock("scu1")>>
           E == Phy("D")
           F == Checked(pctl, {}, {10, 5})
           G == Checked(ctrl, {}, {31, 11})
           H == SetBits32(cmd, {1})
           I == <<Want(O("hcreset", cmd, {}, {}), {}, {1}), Want(Put(flag, {0}), {0}, {})>>
           J == Checked(portsc, {}, {12})
           K == Checked(cmd, {}, {0})
<1>1. EhciInitSteps = A \o B \o D \o E \o F \o G \o H \o I \o J \o K
  BY Zenon DEF EhciInitSteps
<1>2. /\ Owns("ehci", Mux1) /\ Owns("ehci", RstD) /\ Owns("ehci", Clk2)
      /\ Owns("ehci", ctrl) /\ Owns("ehci", pctl) /\ Owns("ehci", cmd) /\ Owns("ehci", flag)
      /\ Owns("ehci", portsc) /\ Owns("ehci", <<"sts2", "D">>) /\ Owns("ehci", <<"sts3", "D">>)
  BY DEF Owns
<1>3. Fits("ehci", Want(Raise(RstD, {29}), {29}, {})) /\ Fits("ehci", Want(O("hcreset", cmd, {}, {}), {}, {1}))
  <2>1. /\ Want(Raise(RstD, {29}), {29}, {}).op = "assert" /\ Want(Raise(RstD, {29}), {29}, {}).r = RstD
        /\ Want(O("hcreset", cmd, {}, {}), {}, {1}).op = "hcreset"
        /\ Want(O("hcreset", cmd, {}, {}), {}, {1}).r = cmd
    BY WantFields
  <2> QED
    BY <2>1 DEF Fits
<1>4. /\ FitsAll("ehci", A) /\ FitsAll("ehci", B) /\ FitsAll("ehci", F) /\ FitsAll("ehci", G)
      /\ FitsAll("ehci", H) /\ FitsAll("ehci", J) /\ FitsAll("ehci", K)
  <2> HIDE DEF cmd, ctrl, pctl, portsc
  <2> QED
    BY <1>2, PairsFit, KeysFit, FitsTuples
<1>5. FitsAll("ehci", D)
  BY <1>2, <1>3, OwnedFit, KeysFit, FitsTuples
<1>6. FitsAll("ehci", E)
  BY <1>2, PairsFit, FitsConcat DEF Phy
<1>7. FitsAll("ehci", I)
  <2>1. Fits("ehci", Want(Put(flag, {0}), {0}, {}))
    <3> HIDE DEF flag
    <3> QED
      BY <1>2, OwnedFit
  <2> QED
    BY <1>3, <2>1, FitsTuples
<1> HIDE DEF A, B, D, E, F, G, H, I, J, K
<1>8. FitsAll("ehci", A \o B \o D \o E \o F)
  BY <1>4, <1>5, <1>6, FitsConcat
<1> QED
  BY <1>1, <1>4, <1>7, <1>8, FitsConcat

(* EnableMAC0RGMII writes the MAC's.                                          *)
LEMMA NetFits == FitsAll("net", EnableMAC0RGMII)
<1> DEFINE pin18 == <<"pin18", "scu1">>
           pin19 == <<"pin19", "scu1">>
           drive5 == <<"drive5", "scu1">>
           delay == <<"delay", "scu1">>
           A == <<Unlock("scu1"), Clear(RstC, {2, 5}), Clear(Clk1, {8})>>
           B == MaskWrite32(pin18, {0, 1, 2}, {0})
           D == MaskWrite32(pin19, {0, 1, 2}, {0})
           E == MaskWrite32(drive5, {0, 1, 2}, {0, 2})
           F == <<Put(delay, {1000}), Lock("scu1")>>
<1>1. EnableMAC0RGMII = A \o B \o D \o E \o F
  BY Zenon DEF EnableMAC0RGMII
<1>2. /\ Owns("net", RstC) /\ Owns("net", Clk1) /\ Owns("net", pin18) /\ Owns("net", pin19)
      /\ Owns("net", drive5) /\ Owns("net", delay)
  BY DEF Owns
<1> HIDE DEF pin18, pin19, drive5, delay
<1>3. FitsAll("net", A) /\ FitsAll("net", F)
  BY <1>2, OwnedFit, KeysFit, FitsTuples
<1>4. FitsAll("net", B) /\ FitsAll("net", D) /\ FitsAll("net", E)
  BY <1>2, PairsFit
<1> HIDE DEF A, B, D, E, F
<1> QED
  BY <1>1, <1>3, <1>4, FitsConcat

(* The display's.                                                             *)
LEMMA GfxOwns ==
  /\ Owns("gfx", Dac) /\ Owns("gfx", DpDac) /\ Owns("gfx", RstA)
  /\ Owns("gfx", <<"sel2", "scu0">>) /\ Owns("gfx", <<"crt1clk", "scu0">>)
  /\ Owns("gfx", <<"pcie0", "scu0">>) /\ Owns("gfx", <<"pcie1", "scu0">>)
  /\ Owns("gfx", <<"dpclk", "scu1">>) /\ Owns("gfx", Ctrl1) /\ Owns("gfx", Ctrl2)
  /\ \A x : Owns("gfx", <<x, "gfx">>) /\ Owns("gfx", <<x, "dp">>) /\ Owns("gfx", <<x, "mcu">>)
  BY DEF Owns, Ctrl1, Ctrl2

(* The parts the display's programs share.                                    *)
LEMMA ClocksFit ==
  ASSUME NEW m
  PROVE  FitsAll("gfx", configureCRTClocksFor(m)) /\ FitsAll("gfx", DacOn) /\ FitsAll("gfx", DE0(m))
<1> DEFINE sel2 == <<"sel2", "scu0">>
           crt1clk == <<"crt1clk", "scu0">>
           dpclk == <<"dpclk", "scu1">>
           A == <<Unlock("scu0")>>
           B == SetBits32(sel2, {14})
           D == <<Put(crt1clk, {m}), Lock("scu0"), Unlock("scu1")>>
           E == SetBits32(DpDac, {10})
           F == <<Put(dpclk, {1}), Lock("scu1")>>
<1>1. configureCRTClocksFor(m) = A \o B \o D \o E \o F
  BY Zenon DEF configureCRTClocksFor
<1>2. /\ Owns("gfx", sel2) /\ Owns("gfx", crt1clk) /\ Owns("gfx", dpclk) /\ Owns("gfx", DpDac)
      /\ Owns("gfx", Dac) /\ Owns("gfx", <<"de0", "mcu">>)
  BY GfxOwns
<1> HIDE DEF sel2, crt1clk, dpclk
<1>3. FitsAll("gfx", A) /\ FitsAll("gfx", D) /\ FitsAll("gfx", F)
  BY <1>2, OwnedFit, KeysFit, FitsTuples
<1>4. FitsAll("gfx", B) /\ FitsAll("gfx", E) /\ FitsAll("gfx", DacOn)
  BY <1>2, PairsFit DEF DacOn
<1>5. FitsAll("gfx", DE0(m))
  BY <1>2, OwnedFit, FitsTuples DEF DE0
<1> HIDE DEF A, B, D, E, F
<1> QED
  BY <1>1, <1>3, <1>4, <1>5, FitsConcat

(* The display stops no clock but its own, and releases no other block.       *)
LEMMA ReleasesFit ==
  /\ Fits("gfx", Raise(Clk0, {20})) /\ Fits("gfx", Raise(RstA, {13}))
  /\ Fits("gfx", Clear(Clk0, {20})) /\ Fits("gfx", Clear(Clk0, {3, 5, 17, 18, 20}))
  /\ Fits("gfx", Clear(RstB, {12}))
<1>1. /\ Raise(Clk0, {20}).op = "assert" /\ Raise(Clk0, {20}).r = Clk0 /\ Raise(Clk0, {20}).set = {20}
      /\ Raise(RstA, {13}).op = "assert" /\ Raise(RstA, {13}).r = RstA
      /\ Clear(Clk0, {20}).op = "clear" /\ Clear(Clk0, {20}).r = Clk0 /\ Clear(Clk0, {20}).set = {20}
      /\ Clear(RstB, {12}).op = "clear" /\ Clear(RstB, {12}).r = RstB /\ Clear(RstB, {12}).set = {12}
  BY OpFields
<1>2. LET o == Clear(Clk0, {3, 5, 17, 18, 20})
      IN o.op = "clear" /\ o.r = Clk0 /\ o.set = {3, 5, 17, 18, 20}
  BY OpFields
<1> QED
  BY <1>1, <1>2 DEF Fits

(* ConfigureCRTOnly and ConfigureCRT.                                         *)
LEMMA CrtFits ==
  ASSUME NEW m
  PROVE  FitsAll("gfx", ConfigureCRTOnly(m)) /\ FitsAll("gfx", ConfigureCRT(m))
<1> DEFINE A == <<Unlock("scu0"), Raise(Clk0, {20}), Raise(RstA, {13}), Lock("scu0")>>
           B == configureCRTClocksFor(m)
           D == <<Unlock("scu0"), Clear(RstA, {13}), Lock("scu0"), Unlock("scu0"), Clear(Clk0, {20})>>
           E == <<Lock("scu0")>>
<1>1. FitsAll("gfx", A) /\ FitsAll("gfx", E)
  BY ReleasesFit, KeysFit, FitsTuples
<1>2. FitsAll("gfx", D)
  <2>1. Fits("gfx", Clear(RstA, {13}))
    BY GfxOwns, OwnedFit
  <2> DEFINE D1 == <<Unlock("scu0"), Clear(RstA, {13}), Lock("scu0"), Unlock("scu0")>>
             D2 == <<Clear(Clk0, {20})>>
  <2>2. FitsAll("gfx", D1) /\ FitsAll("gfx", D2)
    BY <2>1, ReleasesFit, KeysFit, FitsTuples
  <2>3. D = D1 \o D2
    OBVIOUS
  <2> HIDE DEF D, D1, D2
  <2> QED
    BY <2>2, <2>3, FitsConcat
<1>3. CASE m = Odd
  <2>1. ConfigureCRTOnly(m) = A \o <<>> /\ ConfigureCRT(m) = (A \o <<>>) \o <<>>
    BY <1>3, Zenon DEF ConfigureCRTOnly, ConfigureCRT
  <2> HIDE DEF A
  <2>2. A \o <<>> = A
    BY <1>1, ConcatEmptySeq DEF FitsAll
  <2> QED
    BY <1>1, <2>1, <2>2
<1>4. CASE m # Odd
  <2>1. ConfigureCRTOnly(m) = A \o (B \o D \o DacOn \o E) /\ ConfigureCRT(m) = ConfigureCRTOnly(m) \o DE0(m)
    BY <1>4, Zenon DEF ConfigureCRTOnly, ConfigureCRT
  <2> HIDE DEF A, B, D, E
  <2>2. FitsAll("gfx", B \o D \o DacOn \o E)
    BY <1>1, <1>2, ClocksFit, FitsConcat DEF B
  <2> QED
    BY <1>1, <2>1, <2>2, ClocksFit, FitsConcat
<1> QED
  BY <1>3, <1>4

(* EnableAST2700Display and ConfigureAST2700DP800x600.                        *)
LEMMA DisplayFits ==
  FitsAll("gfx", EnableAST2700Display) /\ FitsAll("gfx", EnableAST2700Display \o configureCRTClocksFor(5) \o DE0(5))
<1> DEFINE vlink == <<"vlink", "dp">>
           pcie0 == <<"pcie0", "scu0">>
           pcie1 == <<"pcie1", "scu0">>
           source == <<"source", "dp">>
           A == <<Unlock("scu0"), Clear(Clk0, {3, 5, 17, 18, 20}), Clear(RstA, {13, 28, 29}), Clear(RstB, {12})>>
           B == <<Lock("scu0"), Unlock("scu1")>>
           D == SetBits32(DpDac, {10})
           E == <<Lock("scu1")>>
           F == <<Put(vlink, {1})>>
           G == setDPScratchHandoff
           H == ClearBits32(source, {24, 28})
<1>1. EnableAST2700Display = A \o DacOn \o B \o D \o E \o F \o G \o H
  BY Zenon DEF EnableAST2700Display
<1>2. /\ Owns("gfx", vlink) /\ Owns("gfx", pcie0) /\ Owns("gfx", pcie1) /\ Owns("gfx", source)
      /\ Owns("gfx", RstA) /\ Owns("gfx", DpDac)
  BY GfxOwns
<1>3. FitsAll("gfx", G)
  <2>1. setDPScratchHandoff = SetBits32(pcie0, {7, 9, 10, 11, 12}) \o SetBits32(pcie1, {7, 9, 10, 11, 12})
    BY Zenon DEF setDPScratchHandoff
  <2> HIDE DEF pcie0, pcie1
  <2> QED
    BY <1>2, <2>1, PairsFit, FitsConcat
<1> HIDE DEF vlink, pcie0, pcie1, source
<1>4. FitsAll("gfx", A) /\ FitsAll("gfx", B) /\ FitsAll("gfx", E) /\ FitsAll("gfx", F)
  BY <1>2, ReleasesFit, OwnedFit, KeysFit, FitsTuples
<1>5. FitsAll("gfx", D) /\ FitsAll("gfx", H)
  BY <1>2, PairsFit
<1> HIDE DEF A, B, D, E, F, G, H
<1>6. FitsAll("gfx", EnableAST2700Display)
  BY <1>1, <1>3, <1>4, <1>5, ClocksFit, FitsConcat
<1> QED
  BY <1>6, ClocksFit, FitsConcat

(* The display's other calls.                                                 *)
LEMMA ShortFits ==
  /\ \A m : FitsAll("gfx", SetMode(m))
  /\ FitsAll("gfx", Enable) /\ FitsAll("gfx", Disable) /\ FitsAll("gfx", SanitizeCRT)
  /\ FitsAll("gfx", StartDPMCU)
<1> DEFINE timing == <<"timing", "gfx">>
           addr == <<"addr", "gfx">>
           cursor == <<"cursor", "gfx">>
           source == <<"source", "dp">>
           ctrl == <<"ctrl", "mcu">>
           int == <<"int", "mcu">>
<1>1. /\ Owns("gfx", timing) /\ Owns("gfx", addr) /\ Owns("gfx", cursor) /\ Owns("gfx", source)
      /\ Owns("gfx", ctrl) /\ Owns("gfx", int) /\ Owns("gfx", Ctrl1) /\ Owns("gfx", Ctrl2)
      /\ Owns("gfx", DpDac)
  BY GfxOwns
<1>2. ASSUME NEW m PROVE FitsAll("gfx", SetMode(m))
  <2>1. SetMode(m) = MaskWrite32(Ctrl1, {1, 2, 7, 8, 9}, {8}) \o <<Put(timing, {m}), Put(addr, {1})>>
    BY Zenon DEF SetMode
  <2> HIDE DEF timing, addr
  <2> QED
    BY <1>1, <2>1, PairsFit, OwnedFit, FitsTuples, FitsConcat
<1>3. FitsAll("gfx", Enable)
  <2> DEFINE A == SetBits32(DpDac, {10})
             B == SetBits32(source, {24, 28})
             D == SetBits32(Ctrl1, {0})
             E == <<Put(Ctrl2, {0}), Put(cursor, {1})>>
  <2>1. Enable = DacOn \o A \o B \o D \o E
    BY Zenon DEF Enable, TakeoverDP
  <2> HIDE DEF cursor, source
  <2>2. FitsAll("gfx", A) /\ FitsAll("gfx", B) /\ FitsAll("gfx", D) /\ FitsAll("gfx", E)
    BY <1>1, PairsFit, OwnedFit, FitsTuples
  <2> HIDE DEF A, B, D, E
  <2> QED
    BY <2>1, <2>2, ClocksFit, FitsConcat
<1>4. FitsAll("gfx", Disable) /\ FitsAll("gfx", SanitizeCRT)
  BY <1>1, PairsFit, OwnedFit, FitsTuples, FitsConcat DEF Disable, SanitizeCRT
<1>5. FitsAll("gfx", StartDPMCU)
  <2>1. StartDPMCU = SetBits32(ctrl, {8, 12}) \o <<Put(int, 16 .. 23)>>
    BY Zenon DEF StartDPMCU
  <2> HIDE DEF ctrl, int
  <2> QED
    BY <1>1, <2>1, PairsFit, OwnedFit, FitsTuples, FitsConcat
<1> QED
  BY <1>2, <1>3, <1>4, <1>5

(* The calls a package makes, and the program of each.                        *)
LEMMA CallsOf ==
  /\ \A c \in Calls("vhub") : \E p \in Ports :
       c = C("InitSteps", p) \/ c = C("Connect", p) \/ c = C("Disconnect", p)
  /\ \A c \in Calls("ehci") : c = C("InitSteps", "ehci")
  /\ \A c \in Calls("net") : c = C("EnableMAC0RGMII", "mac")
  /\ \A c \in Calls("gfx") :
       /\ \/ c.op \in {"ConfigureCRT", "ConfigureCRTOnly", "SetMode"} /\ c.arg \in Modes
          \/ /\ c.op \in {"EnableAST2700Display", "ConfigureAST2700DP800x600", "StartDPMCU",
                            "Enable", "Disable", "SanitizeCRT"}
             /\ c.arg = 5
       /\ c = C(c.op, c.arg)
<1>1. \A c \in Calls("vhub") : \E p \in Ports :
        c = C("InitSteps", p) \/ c = C("Connect", p) \/ c = C("Disconnect", p)
  BY DEF Calls
<1>2. /\ \A c \in Calls("ehci") : c = C("InitSteps", "ehci")
      /\ \A c \in Calls("net") : c = C("EnableMAC0RGMII", "mac")
  BY DEF Calls
<1>3. ASSUME NEW c \in Calls("gfx")
      PROVE  /\ \/ c.op \in {"ConfigureCRT", "ConfigureCRTOnly", "SetMode"} /\ c.arg \in Modes
                \/ /\ c.op \in {"EnableAST2700Display", "ConfigureAST2700DP800x600", "StartDPMCU",
                                  "Enable", "Disable", "SanitizeCRT"}
                   /\ c.arg = 5
             /\ c = C(c.op, c.arg)
  BY DEF Calls, C
<1> QED
  BY <1>1, <1>2, <1>3

(* A call's fields.                                                           *)
LEMMA Fields == \A op, a : C(op, a).op = op /\ C(op, a).arg = a
  BY DEF C

(* The program of each call.                                                  *)
LEMMA ProgramsOf ==
  /\ \A p : /\ ProgramOf("vhub", C("InitSteps", p)) = VhubInitSteps(p)
            /\ ProgramOf("vhub", C("Connect", p)) = SetBits32(<<"ctrl", p>>, {0, 3})
            /\ ProgramOf("vhub", C("Disconnect", p)) = ClearBits32(<<"ctrl", p>>, {0})
  /\ ProgramOf("ehci", C("InitSteps", "ehci")) = EhciInitSteps
  /\ ProgramOf("net", C("EnableMAC0RGMII", "mac")) = EnableMAC0RGMII
  /\ \A c : c.op = "ConfigureCRT" => ProgramOf("gfx", c) = ConfigureCRT(c.arg)
  /\ \A c : c.op = "ConfigureCRTOnly" => ProgramOf("gfx", c) = ConfigureCRTOnly(c.arg)
  /\ \A c : c.op = "SetMode" => ProgramOf("gfx", c) = SetMode(c.arg)
  /\ \A c : c.op = "EnableAST2700Display" => ProgramOf("gfx", c) = EnableAST2700Display
  /\ \A c : c.op = "ConfigureAST2700DP800x600" =>
            ProgramOf("gfx", c) = EnableAST2700Display \o configureCRTClocksFor(5) \o DE0(5)
  /\ \A c : c.op = "StartDPMCU" => ProgramOf("gfx", c) = StartDPMCU
  /\ \A c : c.op = "Enable" => ProgramOf("gfx", c) = Enable
  /\ \A c : c.op = "Disable" => ProgramOf("gfx", c) = Disable
  /\ \A c : c.op = "SanitizeCRT" => ProgramOf("gfx", c) = SanitizeCRT
<1>1. /\ \A p : /\ ProgramOf("vhub", C("InitSteps", p)) = VhubInitSteps(p)
                /\ ProgramOf("vhub", C("Connect", p)) = SetBits32(<<"ctrl", p>>, {0, 3})
                /\ ProgramOf("vhub", C("Disconnect", p)) = ClearBits32(<<"ctrl", p>>, {0})
      /\ ProgramOf("ehci", C("InitSteps", "ehci")) = EhciInitSteps
      /\ ProgramOf("net", C("EnableMAC0RGMII", "mac")) = EnableMAC0RGMII
  BY Fields DEF ProgramOf
<1> QED
  BY <1>1 DEF ProgramOf

(* Every program fits its package: nothing in it writes a register of         *)
(* another.                                                                   *)
LEMMA ProgramsFit ==
  ASSUME NEW k \in Packages, NEW c \in Calls(k)
  PROVE  FitsAll(k, Programs[k][c]) /\ Programs[k][c] = ProgramOf(k, c)
<1>1. Programs[k][c] = ProgramOf(k, c)
  BY DEF Programs
<1>2. CASE k = "vhub"
  <2>1. PICK p \in Ports : c = C("InitSteps", p) \/ c = C("Connect", p) \/ c = C("Disconnect", p)
    BY <1>2, CallsOf
  <2>2. p \in AllPorts
    BY BringupAssumption DEF AllPorts
  <2>3. FitsAll("vhub", SetBits32(<<"ctrl", p>>, {0, 3})) /\ FitsAll("vhub", ClearBits32(<<"ctrl", p>>, {0}))
    <3>1. Owns("vhub", <<"ctrl", p>>)
      BY <2>2 DEF Owns
    <3> QED
      BY <3>1, PairsFit
  <2> QED
    BY <1>1, <1>2, <2>1, <2>2, <2>3, VhubFits, ProgramsOf
<1>3. CASE k = "ehci"
  BY <1>1, <1>3, CallsOf, EhciFits, ProgramsOf
<1>4. CASE k = "net"
  BY <1>1, <1>4, CallsOf, NetFits, ProgramsOf
<1>5. CASE k = "gfx"
  <2>1. \/ c.op \in {"ConfigureCRT", "ConfigureCRTOnly", "SetMode"}
        \/ c.op \in {"EnableAST2700Display", "ConfigureAST2700DP800x600", "StartDPMCU", "Enable",
                      "Disable", "SanitizeCRT"}
    BY <1>5, CallsOf
  <2>2. CASE c.op \in {"ConfigureCRT", "ConfigureCRTOnly", "SetMode"}
    BY <1>1, <1>5, <2>2, CrtFits, ShortFits, ProgramsOf
  <2>3. CASE c.op \in {"EnableAST2700Display", "ConfigureAST2700DP800x600", "StartDPMCU", "Enable",
                      "Disable", "SanitizeCRT"}
    BY <1>1, <1>5, <2>3, DisplayFits, ShortFits, ProgramsOf
  <2> QED
    BY <2>1, <2>2, <2>3
<1> QED
  BY <1>2, <1>3, <1>4, <1>5 DEF Packages

-----------------------------------------------------------------------------
(* What an access does.                                                       *)

(* The access at hand is one that fits.                                       *)
LEMMA OpFits ==
  ASSUME Types, NEW k \in Packages, bootPc[k] # 0
  PROVE  /\ bootCall[k] \in Calls(k) /\ Fits(k, Op(k)) /\ Op(k) = ProgramOf(k, bootCall[k])[bootPc[k]]
         /\ Len(ProgramOf(k, bootCall[k])) \in Nat \ {0} /\ bootPc[k] \in 1 .. Len(ProgramOf(k, bootCall[k]))
         /\ Programs[k][bootCall[k]] = ProgramOf(k, bootCall[k])
<1> DEFINE P == ProgramOf(k, bootCall[k])
<1>1. bootCall[k] \in Calls(k) /\ bootPc[k] <= Len(Programs[k][bootCall[k]]) /\ bootPc[k] \in Nat
  BY DEF Types
<1>2. FitsAll(k, P) /\ Programs[k][bootCall[k]] = P
  BY <1>1, ProgramsFit
<1>3. Len(P) \in Nat \ {0} /\ \A n \in 1 .. Len(P) : Fits(k, P[n])
  BY <1>2, FitsEach
<1> HIDE DEF P
<1>4. bootPc[k] \in 1 .. Len(P)
  BY <1>1, <1>2, <1>3
<1> QED
  BY <1>1, <1>2, <1>3, <1>4 DEF Op, P

(* What report becomes when k's call returns, good or not.                    *)
Reported(k, good) ==
  IF bootCall[k].op # "InitSteps" THEN report
  ELSE [p \in DOMAIN report |->
          IF p = bootCall[k].arg THEN IF good THEN "ok" ELSE "failed"
          ELSE IF k = "vhub" /\ ~good /\ p # "ehci" /\ PortTable[p].phy = PortTable[bootCall[k].arg].phy
          THEN "failed" ELSE report[p]]

(* The control of an access: whether all is well so far, and where it leads.  *)
LEMMA Advances ==
  ASSUME Types, NEW k \in Packages, NEW good \in BOOLEAN, NEW v, NEW n, n = Len(Programs[k][bootCall[k]]),
         IF bootPc[k] = n
         THEN /\ bootPc' = [bootPc EXCEPT ![k] = 0] /\ bootCall' = [bootCall EXCEPT ![k] = NoCall]
              /\ tmp' = [tmp EXCEPT ![k] = {}] /\ ok' = [ok EXCEPT ![k] = TRUE]
              /\ report' = Reported(k, good) /\ mac' = (IF k = "net" THEN TRUE ELSE mac)
              /\ screen' = (IF k = "gfx" THEN Screen(bootCall[k]) ELSE screen)
         ELSE /\ bootPc' = [bootPc EXCEPT ![k] = @ + 1] /\ ok' = [ok EXCEPT ![k] = good]
              /\ tmp' = [tmp EXCEPT ![k] = v] /\ UNCHANGED <<bootCall, report, mac, screen>>
  PROVE  /\ bootPc' \in [Packages -> Nat] /\ ok' \in [Packages -> BOOLEAN]
         /\ DOMAIN bootCall' = Packages /\ DOMAIN tmp' = Packages
         /\ \A l \in Packages \ {k} :
              bootPc'[l] = bootPc[l] /\ bootCall'[l] = bootCall[l] /\ tmp'[l] = tmp[l] /\ ok'[l] = ok[l]
         /\ \/ /\ bootPc[k] # n /\ bootPc'[k] = bootPc[k] + 1 /\ bootCall'[k] = bootCall[k]
               /\ tmp'[k] = v /\ ok'[k] = good
               /\ report' = report /\ mac' = mac /\ screen' = screen
            \/ /\ bootPc[k] = n /\ bootPc'[k] = 0
               /\ report' = Reported(k, good) /\ mac' = (IF k = "net" THEN TRUE ELSE mac)
               /\ screen' = (IF k = "gfx" THEN Screen(bootCall[k]) ELSE screen)
<1>1. /\ bootPc \in [Packages -> Nat] /\ ok \in [Packages -> BOOLEAN]
      /\ DOMAIN bootCall = Packages /\ DOMAIN tmp = Packages
  BY Zenon DEF Types
<1>2. CASE bootPc[k] = n
  <2>1. /\ bootPc' = [bootPc EXCEPT ![k] = 0] /\ bootCall' = [bootCall EXCEPT ![k] = NoCall]
        /\ tmp' = [tmp EXCEPT ![k] = {}] /\ ok' = [ok EXCEPT ![k] = TRUE]
        /\ report' = Reported(k, good) /\ mac' = (IF k = "net" THEN TRUE ELSE mac)
        /\ screen' = (IF k = "gfx" THEN Screen(bootCall[k]) ELSE screen)
    BY <1>2, Zenon
  <2>2. /\ bootPc' \in [Packages -> Nat] /\ bootPc'[k] = 0 /\ ok' \in [Packages -> BOOLEAN]
        /\ DOMAIN bootCall' = Packages /\ DOMAIN tmp' = Packages
    BY <1>1, <2>1
  <2>3. \A l \in Packages \ {k} :
          bootPc'[l] = bootPc[l] /\ bootCall'[l] = bootCall[l] /\ tmp'[l] = tmp[l] /\ ok'[l] = ok[l]
    BY <1>1, <2>1, Zenon
  <2> QED
    BY <1>2, <2>1, <2>2, <2>3, Zenon
<1>3. CASE bootPc[k] # n
  <2>1. /\ bootPc' = [bootPc EXCEPT ![k] = @ + 1] /\ ok' = [ok EXCEPT ![k] = good]
        /\ tmp' = [tmp EXCEPT ![k] = v] /\ UNCHANGED <<bootCall, report, mac, screen>>
    BY <1>3, Zenon
  <2>2. /\ bootPc' \in [Packages -> Nat] /\ bootPc'[k] = bootPc[k] + 1
        /\ DOMAIN bootCall' = Packages /\ DOMAIN tmp' = Packages
    BY <1>1, <2>1
  <2>3. ok' \in [Packages -> BOOLEAN] /\ ok'[k] = good /\ tmp'[k] = v
    BY <1>1, <2>1, Zenon
  <2>4. \A l \in Packages \ {k} :
          bootPc'[l] = bootPc[l] /\ bootCall'[l] = bootCall[l] /\ tmp'[l] = tmp[l] /\ ok'[l] = ok[l]
    BY <1>1, <2>1, Zenon
  <2> QED
    BY <1>3, <2>1, <2>2, <2>3, <2>4, Zenon
<1> QED
  BY <1>2, <1>3

(* An access by k leaves what is the others' alone. With its last access the  *)
(* call ends, and what the call reports is set then; before, the next access  *)
(* is due.                                                                    *)
LEMMA Accesses ==
  ASSUME Types, NEW k \in Packages,
         Protect(k) \/ Read32(k) \/ Write32(k) \/ HCReset(k)
  PROVE  LET o == Op(k)  n == Len(ProgramOf(k, bootCall[k])) IN
         /\ bootPc[k] # 0 /\ dead' = dead /\ bootCalls' = bootCalls /\ overlapped' = overlapped
         /\ bootPc' \in [Packages -> Nat] /\ ok' \in [Packages -> BOOLEAN]
         /\ DOMAIN bootCall' = Packages /\ DOMAIN tmp' = Packages
         /\ \A l \in Packages \ {k} :
              bootPc'[l] = bootPc[l] /\ bootCall'[l] = bootCall[l] /\ tmp'[l] = tmp[l] /\ ok'[l] = ok[l]
         /\ \E good \in BOOLEAN : \E v :
              /\ good => ok[k]
              /\ good /\ o.op \notin {"unlock", "lock", "load"} => OK(o, Reading(o.r, reg'))
              /\ o.op = "load" => v = Reading(o.r, reg)
              /\ o.op # "load" => v = tmp[k]
              /\ \/ /\ bootPc[k] # n /\ bootPc'[k] = bootPc[k] + 1 /\ bootCall'[k] = bootCall[k]
                    /\ tmp'[k] = v /\ ok'[k] = good
                    /\ report' = report /\ mac' = mac /\ screen' = screen
                 \/ /\ bootPc[k] = n /\ bootPc'[k] = 0
                    /\ report' = Reported(k, good) /\ mac' = (IF k = "net" THEN TRUE ELSE mac)
                    /\ screen' = (IF k = "gfx" THEN Screen(bootCall[k]) ELSE screen)
<1> DEFINE n == Len(Programs[k][bootCall[k]])
           o == Op(k)
           Goes(good, v) ==
             IF bootPc[k] = n
             THEN /\ bootPc' = [bootPc EXCEPT ![k] = 0] /\ bootCall' = [bootCall EXCEPT ![k] = NoCall]
                  /\ tmp' = [tmp EXCEPT ![k] = {}] /\ ok' = [ok EXCEPT ![k] = TRUE]
                  /\ report' = Reported(k, good) /\ mac' = (IF k = "net" THEN TRUE ELSE mac)
                  /\ screen' = (IF k = "gfx" THEN Screen(bootCall[k]) ELSE screen)
             ELSE /\ bootPc' = [bootPc EXCEPT ![k] = @ + 1] /\ ok' = [ok EXCEPT ![k] = good]
                  /\ tmp' = [tmp EXCEPT ![k] = v] /\ UNCHANGED <<bootCall, report, mac, screen>>
<1>1. /\ bootPc[k] # 0 /\ dead' = dead /\ bootCalls' = bootCalls /\ overlapped' = overlapped
  BY DEF Protect, Read32, Write32, HCReset, NextOp
<1>2. n = Len(ProgramOf(k, bootCall[k]))
  BY <1>1, OpFits
<1>3. ok[k] \in BOOLEAN
  BY DEF Types
<1>4. \E good \in BOOLEAN : \E v :
        /\ good => ok[k]
        /\ good /\ o.op \notin {"unlock", "lock", "load"} => OK(o, Reading(o.r, reg'))
        /\ o.op = "load" => v = Reading(o.r, reg)
        /\ o.op # "load" => v = tmp[k]
        /\ Goes(good, v)
  <2>1. CASE Protect(k)
    <3>1. o.op \in {"unlock", "lock"} /\ Goes(ok[k], tmp[k])
      BY <2>1, Zenon DEF Protect, NextOp, EndCall, Continue, Reported
    <3> HIDE DEF Goes, o
    <3> QED
      BY <1>3, <3>1
  <2>2. CASE Read32(k)
    <3>1. o.op = "load" /\ Goes(ok[k], Reading(o.r, reg))
      BY <2>2, Zenon DEF Read32, NextOp, EndCall, Continue, Reported
    <3> HIDE DEF Goes, o
    <3> QED
      BY <1>3, <3>1
  <2>3. CASE Write32(k)
    <3>1. o.op \in {"put", "store", "assert", "clear"} /\ Goes(ok[k] /\ OK(o, Reading(o.r, reg')), tmp[k])
      BY <2>3, Zenon DEF Write32, NextOp, EndCall, Continue, Reported
    <3> DEFINE good == ok[k] /\ OK(o, Reading(o.r, reg'))
    <3>2. good \in BOOLEAN
      BY <1>3 DEF OK
    <3> HIDE DEF Goes, o
    <3> QED
      BY <3>1, <3>2, Zenon
  <2>4. CASE HCReset(k)
    <3>1. o.op = "hcreset" /\ Goes(ok[k] /\ OK(o, Reading(o.r, reg')), tmp[k])
      BY <2>4, Zenon DEF HCReset, NextOp, EndCall, Continue, Reported
    <3> DEFINE good == ok[k] /\ OK(o, Reading(o.r, reg'))
    <3>2. good \in BOOLEAN
      BY <1>3 DEF OK
    <3> HIDE DEF Goes, o
    <3> QED
      BY <3>1, <3>2, Zenon
  <2> QED
    BY <2>1, <2>2, <2>3, <2>4
<1>5. PICK good \in BOOLEAN : \E v :
        /\ good => ok[k]
        /\ good /\ o.op \notin {"unlock", "lock", "load"} => OK(o, Reading(o.r, reg'))
        /\ o.op = "load" => v = Reading(o.r, reg)
        /\ o.op # "load" => v = tmp[k]
        /\ Goes(good, v)
  BY <1>4, Zenon
<1>6. PICK v : 
        /\ good => ok[k]
        /\ good /\ o.op \notin {"unlock", "lock", "load"} => OK(o, Reading(o.r, reg'))
        /\ o.op = "load" => v = Reading(o.r, reg)
        /\ o.op # "load" => v = tmp[k]
        /\ Goes(good, v)
  BY <1>5, Zenon
<1>7. n = Len(Programs[k][bootCall[k]])
  OBVIOUS
<1> HIDE DEF o, n
<1>8. /\ bootPc' \in [Packages -> Nat] /\ ok' \in [Packages -> BOOLEAN]
      /\ DOMAIN bootCall' = Packages /\ DOMAIN tmp' = Packages
      /\ \A l \in Packages \ {k} :
           bootPc'[l] = bootPc[l] /\ bootCall'[l] = bootCall[l] /\ tmp'[l] = tmp[l] /\ ok'[l] = ok[l]
      /\ \/ /\ bootPc[k] # n /\ bootPc'[k] = bootPc[k] + 1 /\ bootCall'[k] = bootCall[k]
            /\ tmp'[k] = v /\ ok'[k] = good
            /\ report' = report /\ mac' = mac /\ screen' = screen
         \/ /\ bootPc[k] = n /\ bootPc'[k] = 0
            /\ report' = Reported(k, good) /\ mac' = (IF k = "net" THEN TRUE ELSE mac)
            /\ screen' = (IF k = "gfx" THEN Screen(bootCall[k]) ELSE screen)
  <2>1. IF bootPc[k] = n
        THEN /\ bootPc' = [bootPc EXCEPT ![k] = 0] /\ bootCall' = [bootCall EXCEPT ![k] = NoCall]
             /\ tmp' = [tmp EXCEPT ![k] = {}] /\ ok' = [ok EXCEPT ![k] = TRUE]
             /\ report' = Reported(k, good) /\ mac' = (IF k = "net" THEN TRUE ELSE mac)
             /\ screen' = (IF k = "gfx" THEN Screen(bootCall[k]) ELSE screen)
        ELSE /\ bootPc' = [bootPc EXCEPT ![k] = @ + 1] /\ ok' = [ok EXCEPT ![k] = good]
             /\ tmp' = [tmp EXCEPT ![k] = v] /\ UNCHANGED <<bootCall, report, mac, screen>>
    BY <1>6, Zenon
  <2> QED
    BY <1>7, <2>1, Advances, Zenon
<1> QED
  BY <1>1, <1>2, <1>6, <1>8 DEF o

(* The registers there are, of a port in use, of its PHY, of the EHCI, of the *)
(* SCUs and of the display.                                                   *)
LEMMA RegistersHas ==
  /\ \A p \in Ports, x \in {"ctrl", "phyctrl", "swreset"} : At(x, p) \in Registers
  /\ \A p \in Ports, x \in {"sts2", "sts3"} : At(x, PortTable[p].phy) \in Registers
  /\ \A x \in {"ctrl", "phyctrl", "sts2", "sts3"} : At(x, "D") \in Registers
  /\ \A x \in {"cmd", "flag", "portsc"} : At(x, "ehci") \in Registers
  /\ {Mux0, RstA, RstB, Clk0, Dac, Mux1, RstC, RstD, Clk1, Clk2, DpDac} \subseteq Registers
  /\ At("crt1clk", "scu0") \in Registers
  /\ \A x \in {"pin18", "pin19", "drive5", "delay"} : At(x, "scu1") \in Registers
  /\ {Ctrl1, Ctrl2, At("timing", "gfx"), At("source", "dp"), At("de0", "mcu")} \subseteq Registers
<1>1. Ports \subseteq AllPorts /\ DOMAIN PortTable = AllPorts
  BY PortFields, BringupAssumption DEF AllPorts, PortTable
<1>2. \A u \in Units : \A x \in Unit(u) : x \in Registers
  BY DEF Registers
<1>3. ASSUME NEW u \in AllPorts
      PROVE  \A x \in {"ctrl", "phyctrl", "swreset", "sts2", "sts3"} : <<x, u>> \in Unit(u)
  BY <1>1, <1>3 DEF Unit, AllPorts
<1>4. \A p \in Ports : p \in Units /\ PortTable[p].phy \in Units /\ PortTable[p].phy \in AllPorts
  BY <1>1, PortFields DEF Units
<1>5. {"scu0", "scu1", "D", "ehci", "gfx", "dp", "mcu"} \subseteq Units
  BY DEF Units, SCUs
<1>6. \A u \in {"scu0", "scu1", "D", "ehci", "gfx", "dp", "mcu"} : u \notin DOMAIN PortTable
  BY <1>1 DEF AllPorts
<1>7. /\ \A x \in {"ctrl", "phyctrl", "sts2", "sts3"} : <<x, "D">> \in Unit("D")
      /\ \A x \in {"cmd", "flag", "portsc"} : <<x, "ehci">> \in Unit("ehci")
  BY <1>6 DEF Unit
<1>8. /\ {Mux0, RstA, RstB, Clk0, Dac, <<"crt1clk", "scu0">>} \subseteq Unit("scu0")
      /\ {Mux1, RstC, RstD, Clk1, Clk2, DpDac} \subseteq Unit("scu1")
      /\ \A x \in {"pin18", "pin19", "drive5", "delay"} : <<x, "scu1">> \in Unit("scu1")
  BY <1>6 DEF Unit
<1>9. /\ {Ctrl1, Ctrl2, <<"timing", "gfx">>} \subseteq Unit("gfx")
      /\ <<"source", "dp">> \in Unit("dp") /\ <<"de0", "mcu">> \in Unit("mcu")
  BY <1>6 DEF Unit, Ctrl1, Ctrl2
<1> QED
  BY <1>1, <1>2, <1>3, <1>4, <1>5, <1>7, <1>8, <1>9 DEF At

(* When a unit clocks.                                                        *)
LEMMA Lives ==
  ASSUME Types, NEW regs
  PROVE  /\ \A u \in AllPorts : Live(u, regs) <=>
              /\ u \notin dead /\ PortTable[u].clock \notin regs[Clk0]
              /\ PortTable[u].reset \notin regs[RstB]
              /\ PortTable[u].phyReset \cap regs[RstB] = {}
         /\ \A u \in {"D", "ehci"} : Live(u, regs) <=>
              u \notin dead /\ 18 \notin regs[Clk2] /\ 29 \notin regs[RstD]
         /\ Live("gfx", regs) <=> 20 \notin regs[Clk0] /\ 13 \notin regs[RstA]
         /\ \A u \in {"scu0", "scu1", "dp", "mcu"} : Live(u, regs)
<1>1. DOMAIN PortTable = AllPorts
  BY DEF PortTable, AllPorts
<1>2. dead \subseteq AllPorts \cup {"D", "ehci"}
  BY DEF Types
<1>3. ASSUME NEW u \in AllPorts
      PROVE  Live(u, regs) <=> /\ u \notin dead /\ PortTable[u].clock \notin regs[Clk0]
                               /\ PortTable[u].reset \notin regs[RstB]
                               /\ PortTable[u].phyReset \cap regs[RstB] = {}
  <2> DEFINE t == PortTable[u]
             A == {<<Clk0, t.clock>>, <<RstB, t.reset>>}
             B == {<<RstB, b>> : b \in t.phyReset}
  <2>1. Gates(u) = A \cup B
    <3>1. u \in DOMAIN PortTable /\ u \notin {"D", "ehci"} /\ u # "gfx"
      BY <1>1, <1>3 DEF AllPorts
    <3> QED
      BY <3>1 DEF Gates
  <2>2. (\A g \in A : g[2] \notin regs[g[1]]) <=> t.clock \notin regs[Clk0] /\ t.reset \notin regs[RstB]
    OBVIOUS
  <2>3. (\A g \in B : g[2] \notin regs[g[1]]) <=> t.phyReset \cap regs[RstB] = {}
    <3> HIDE DEF t
    <3>1. \A g : g \in B <=> \E b \in t.phyReset : g = <<RstB, b>>
      OBVIOUS
    <3> HIDE DEF B
    <3>2. ASSUME \A g \in B : g[2] \notin regs[g[1]], NEW b \in t.phyReset PROVE b \notin regs[RstB]
      <4>1. <<RstB, b>> \in B
        BY <3>1
      <4> QED
        BY <3>2, <4>1
    <3>3. ASSUME t.phyReset \cap regs[RstB] = {}, NEW g \in B PROVE g[2] \notin regs[g[1]]
      <4>1. PICK b \in t.phyReset : g = <<RstB, b>>
        BY <3>1
      <4> QED
        BY <3>3, <4>1
    <3> QED
      BY <3>2, <3>3
  <2> HIDE DEF A, B, t
  <2>4. (\A g \in Gates(u) : g[2] \notin regs[g[1]]) <=>
          t.clock \notin regs[Clk0] /\ t.reset \notin regs[RstB] /\ t.phyReset \cap regs[RstB] = {}
    BY <2>1, <2>2, <2>3
  <2> QED
    BY <2>4 DEF Live, t
<1>4. \A u \in {"scu0", "scu1", "dp", "mcu", "gfx", "D", "ehci"} : u \notin DOMAIN PortTable
  BY <1>1 DEF AllPorts
<1>5. ASSUME NEW u \in {"D", "ehci"}
      PROVE  Live(u, regs) <=> u \notin dead /\ 18 \notin regs[Clk2] /\ 29 \notin regs[RstD]
  <2>1. Gates(u) = {<<Clk2, 18>>, <<RstD, 29>>}
    BY <1>4, <1>5 DEF Gates
  <2> QED
    BY <2>1 DEF Live
<1>6. Live("gfx", regs) <=> 20 \notin regs[Clk0] /\ 13 \notin regs[RstA]
  <2>1. Gates("gfx") = {<<Clk0, 20>>, <<RstA, 13>>}
    BY <1>4 DEF Gates
  <2>2. "gfx" \notin dead
    BY <1>2 DEF AllPorts
  <2>3. \A G : G = {<<Clk0, 20>>, <<RstA, 13>>} =>
          ((\A g \in G : g[2] \notin regs[g[1]]) <=> 20 \notin regs[Clk0] /\ 13 \notin regs[RstA])
    OBVIOUS
  <2> QED
    BY <2>1, <2>2, <2>3, Zenon DEF Live
<1>7. ASSUME NEW u \in {"scu0", "scu1", "dp", "mcu"} PROVE Live(u, regs)
  <2>1. Gates(u) = {}
    BY <1>4, <1>7 DEF Gates
  <2>2. u \notin dead
    BY <1>2, <1>7 DEF AllPorts
  <2> QED
    BY <2>1, <2>2 DEF Live
<1> QED
  BY <1>3, <1>5, <1>6, <1>7

(* The reset line of each block.                                              *)
LEMMA Resets ==
  /\ \A u \in AllPorts : ResetOf(u) = <<RstB, PortTable[u].reset>>
  /\ \A u \in {"D", "ehci"} : ResetOf(u) = <<RstD, 29>>
  /\ \A u : u \notin AllPorts \cup {"D", "ehci"} => ResetOf(u) = <<>>
<1>1. DOMAIN PortTable = AllPorts
  BY DEF PortTable, AllPorts
<1>2. \A u \in {"D", "ehci"} : u \notin DOMAIN PortTable
  BY <1>1 DEF AllPorts
<1>3. \A u \in AllPorts : u \notin {"D", "ehci"}
  BY DEF AllPorts
<1>4. ASSUME NEW u \in AllPorts PROVE ResetOf(u) = <<RstB, PortTable[u].reset>>
  BY <1>1, <1>3, <1>4 DEF ResetOf
<1>5. ASSUME NEW u \in {"D", "ehci"} PROVE ResetOf(u) = <<RstD, 29>>
  BY <1>2, <1>5 DEF ResetOf
<1>6. ASSUME NEW u, u \notin AllPorts \cup {"D", "ehci"} PROVE ResetOf(u) = <<>>
  BY <1>1, <1>6 DEF ResetOf
<1> QED
  BY <1>4, <1>5, <1>6

(* What the registers hold after an access: the one accessed, and the others. *)
LEMMA Effects ==
  ASSUME Types, NEW k \in Packages, NEW o, o = Op(k),
         Protect(k) \/ Read32(k) \/ Write32(k) \/ HCReset(k)
  PROVE  /\ DOMAIN reg' = Registers
         /\ o.op \in {"unlock", "lock", "load"} => reg' = reg
         /\ o.op \in {"put", "store", "clear"} => \A x \in Registers : x # o.r => reg'[x] = reg[x]
         /\ o.op = "assert" =>
              \A x \in Registers : x # o.r =>
                \/ reg'[x] = reg[x]
                \/ /\ \E b \in o.set : ResetOf(x[2]) # <<>> /\ ResetOf(x[2])[1] = o.r /\ ResetOf(x[2])[2] = b
                   /\ reg'[x] = {}
         /\ o.op = "hcreset" =>
              \/ reg' = reg
              \/ \A x \in Registers : reg'[x] = IF x \in {o.r, <<"flag", "ehci">>} THEN {} ELSE reg[x]
         /\ o.r \in Registers /\ o.op \in {"put", "store", "clear", "assert"} =>
              \/ ~Writable(o.r) /\ reg' = reg
              \/ /\ Writable(o.r)
                 /\ o.op = "put" => reg'[o.r] = o.set
                 /\ o.op = "store" => reg'[o.r] = (tmp[k] \ o.clr) \cup o.set
                 /\ o.op = "clear" => reg'[o.r] = reg[o.r] \ o.set
                 /\ o.op = "assert" => reg'[o.r] = reg[o.r] \cup o.set
<1>1. DOMAIN reg = Registers
  BY DEF Types
<1>2. CASE Protect(k)
  BY <1>1, <1>2 DEF Protect
<1>3. CASE Read32(k)
  BY <1>1, <1>3 DEF Read32
<1>4. CASE HCReset(k)
  <2>1. o.op = "hcreset" /\ reg' \in {reg, [reg EXCEPT ![o.r] = {}, ![<<"flag", "ehci">>] = {}]}
    BY <1>4 DEF HCReset
  <2>2. CASE reg' = reg
    BY <1>1, <2>1, <2>2
  <2>3. CASE reg' = [reg EXCEPT ![o.r] = {}, ![<<"flag", "ehci">>] = {}]
    <3>1. DOMAIN reg' = Registers
          /\ \A x \in Registers : reg'[x] = IF x \in {o.r, <<"flag", "ehci">>} THEN {} ELSE reg[x]
      BY <1>1, <2>3
    <3> QED
      BY <2>1, <3>1
  <2> QED
    BY <2>1, <2>2, <2>3
<1>5. CASE Write32(k)
  <2>1. /\ o.op \in {"put", "store", "assert", "clear"}
        /\ reg' = IF Writable(o.r) THEN After(k, o) ELSE reg
    BY <1>5 DEF Write32
  <2>2. CASE ~Writable(o.r)
    BY <1>1, <2>1, <2>2
  <2>3. CASE Writable(o.r)
    <3> DEFINE r == o.r
    <3>1. reg' = After(k, o)
      BY <2>1, <2>3
    <3>2. CASE o.op = "put"
      <4>1. reg' = [reg EXCEPT ![o.r] = o.set]
        BY <3>1, <3>2 DEF After, With
      <4> QED
        BY <1>1, <2>3, <3>2, <4>1
    <3>3. CASE o.op = "store"
      <4>1. reg' = [reg EXCEPT ![o.r] = (tmp[k] \ o.clr) \cup o.set]
        BY <3>1, <3>3 DEF After, With
      <4> QED
        BY <1>1, <2>3, <3>3, <4>1
    <3>4. CASE o.op = "clear"
      <4>1. reg' = [reg EXCEPT ![o.r] = reg[o.r] \ o.set]
        BY <3>1, <3>4 DEF After, With
      <4> QED
        BY <1>1, <2>3, <3>4, <4>1
    <3>5. CASE o.op = "assert"
      <4>1. reg' = [x \in Registers |->
                      IF x = o.r THEN reg[o.r] \cup o.set
                      ELSE IF ResetOf(x[2]) # <<>> /\ ResetOf(x[2])[1] = o.r /\ ResetOf(x[2])[2] \in o.set
                           THEN {} ELSE reg[x]]
        BY <3>1, <3>5 DEF After, Hold
      <4> QED
        BY <2>3, <3>5, <4>1
    <3> QED
      BY <2>1, <3>2, <3>3, <3>4, <3>5
  <2> QED
    BY <2>2, <2>3
<1> QED
  BY <1>2, <1>3, <1>4, <1>5

-----------------------------------------------------------------------------
(* No package writes another's registers.                                     *)

(* The registers with a name of their own are different ones.                 *)
LEMMA Distinct ==
  /\ Mux0 = <<"mux", "scu0">> /\ Mux1 = <<"mux", "scu1">> /\ RstA = <<"rst1", "scu0">>
  /\ RstB = <<"rst2", "scu0">> /\ RstC = <<"rst1", "scu1">> /\ RstD = <<"rst2", "scu1">>
  /\ Clk0 = <<"clk", "scu0">> /\ Clk1 = <<"clk", "scu1">> /\ Clk2 = <<"clk2", "scu1">>
  /\ Dac = <<"dac", "scu0">> /\ DpDac = <<"dpdac", "scu1">>
  /\ Ctrl1 = <<"ctrl1", "gfx">> /\ Ctrl2 = <<"ctrl2", "gfx">>
  /\ \A x, u : At(x, u) = <<x, u>>
  BY DEF At, Mux0, Mux1, RstA, RstB, RstC, RstD, Clk0, Clk1, Clk2, Dac, DpDac, Ctrl1, Ctrl2

(* A register has one owner, and the two that are shared have none.           *)
LEMMA OwnsOne ==
  ASSUME NEW l \in Packages, NEW x, Owns(l, x)
  PROVE  /\ x # RstB /\ x # Clk0
         /\ \A k \in Packages : Owns(k, x) => k = l
         /\ x[2] \in AllPorts => l = "vhub"
         /\ x[2] \in {"D", "ehci"} => l = "ehci"
<1>1. CASE l = "vhub"
  BY <1>1, Distinct DEF Owns, AllPorts, Packages
<1>2. CASE l = "ehci"
  BY <1>2, Distinct DEF Owns, AllPorts, Packages
<1>3. CASE l = "net"
  BY <1>3, Distinct DEF Owns, AllPorts, Packages
<1>4. CASE l = "gfx"
  BY <1>4, Distinct DEF Owns, AllPorts, Packages
<1> QED
  BY <1>1, <1>2, <1>3, <1>4 DEF Packages

(* A register keeps its value while another package than its owner works.     *)
LEMMA OthersKeep ==
  ASSUME Types, NEW k \in Packages, NEW l \in Packages, l # k,
         Protect(k) \/ Read32(k) \/ Write32(k) \/ HCReset(k),
         NEW x \in Registers, Owns(l, x)
  PROVE  reg'[x] = reg[x]
<1> DEFINE o == Op(k)
<1>1. bootPc[k] # 0
  BY DEF Protect, Read32, Write32, HCReset
<1>2. Fits(k, o)
  BY <1>1, OpFits
<1>3. /\ o.op \in {"unlock", "lock", "load"} => reg' = reg
      /\ o.op \in {"put", "store", "clear"} => (x # o.r => reg'[x] = reg[x])
      /\ o.op = "assert" => (x # o.r =>
            \/ reg'[x] = reg[x]
            \/ ResetOf(x[2]) # <<>> /\ ResetOf(x[2])[1] = o.r)
      /\ o.op = "hcreset" => (x \notin {o.r, <<"flag", "ehci">>} => reg'[x] = reg[x])
  BY Effects
<1> HIDE DEF o
<1>4. CASE o.op \in {"unlock", "lock", "load"}
  BY <1>3, <1>4
<1>5. CASE o.op \in {"put", "store", "clear"}
  <2>1. x # o.r
    BY <1>2, <1>5, OwnsOne DEF Fits
  <2> QED
    BY <1>3, <1>5, <2>1
<1>6. CASE o.op = "hcreset"
  <2>1. k = "ehci" /\ o.r[2] = "ehci" /\ Owns("ehci", o.r) /\ Owns("ehci", <<"flag", "ehci">>)
    BY <1>2, <1>6 DEF Fits, Owns
  <2>2. x # o.r /\ x # <<"flag", "ehci">>
    BY <2>1, OwnsOne
  <2> QED
    BY <1>3, <1>6, <2>2
<1>7. CASE o.op = "assert"
  <2>1. \/ k = "vhub" /\ o.r = RstB
        \/ k = "ehci" /\ o.r = RstD
        \/ k = "gfx" /\ o.r \in {RstA, Clk0}
    BY <1>2, <1>7 DEF Fits
  <2>2. x # o.r
    <3>1. Owns("ehci", RstD) /\ Owns("gfx", RstA)
      BY DEF Owns
    <3> QED
      BY <2>1, <3>1, OwnsOne
  <2>3. ~(ResetOf(x[2]) # <<>> /\ ResetOf(x[2])[1] = o.r)
    <3>1. CASE x[2] \in AllPorts
      <4>1. l = "vhub" /\ ResetOf(x[2])[1] = RstB
        BY <3>1, OwnsOne, Resets
      <4> QED
        BY <2>1, <4>1, Distinct
    <3>2. CASE x[2] \in {"D", "ehci"}
      <4>1. l = "ehci" /\ ResetOf(x[2])[1] = RstD
        BY <3>2, OwnsOne, Resets
      <4> QED
        BY <2>1, <4>1, Distinct
    <3>3. CASE x[2] \notin AllPorts \cup {"D", "ehci"}
      BY <3>3, Resets
    <3> QED
      BY <3>1, <3>2, <3>3
  <2> QED
    BY <1>3, <1>7, <2>2, <2>3
<1> QED
  BY <1>2, <1>4, <1>5, <1>6, <1>7 DEF Fits

(* Of RstB and Clk0 the others keep the vHubs' bits, and the display's clock  *)
(* stays on.                                                                  *)
LEMMA SharedKeep ==
  ASSUME Types, NEW k \in Packages,
         Protect(k) \/ Read32(k) \/ Write32(k) \/ HCReset(k)
  PROVE  /\ k # "vhub" => /\ \A b \in {0, 3, 6, 7} : b \in reg'[RstB] <=> b \in reg[RstB]
                          /\ \A b \in {7, 14} : b \in reg'[Clk0] <=> b \in reg[Clk0]
         /\ k # "gfx" => (20 \in reg'[Clk0] => 20 \in reg[Clk0])
<1> DEFINE o == Op(k)
<1>1. bootPc[k] # 0
  BY DEF Protect, Read32, Write32, HCReset
<1>2. Fits(k, o) /\ RstB \in Registers /\ Clk0 \in Registers
  BY <1>1, OpFits, RegistersHas
<1>3. ResetOf(RstB[2]) = <<>> /\ ResetOf(Clk0[2]) = <<>>
  BY Distinct, Resets DEF AllPorts
<1>4. ASSUME NEW x \in {RstB, Clk0}, x # o.r \/ o.op \in {"unlock", "lock", "load", "hcreset"}
      PROVE  reg'[x] = reg[x]
  <2>1. /\ o.op \in {"unlock", "lock", "load"} => reg' = reg
        /\ o.op \in {"put", "store", "clear"} => (x # o.r => reg'[x] = reg[x])
        /\ o.op = "assert" => (x # o.r => reg'[x] = reg[x] \/ ResetOf(x[2]) # <<>>)
        /\ o.op = "hcreset" => (x \notin {o.r, <<"flag", "ehci">>} => reg'[x] = reg[x])
    BY <1>2, Effects
  <2>2. o.op = "hcreset" => x \notin {o.r, <<"flag", "ehci">>}
    BY <1>2, Distinct DEF Fits
  <2>3. ResetOf(x[2]) = <<>>
    BY <1>3
  <2> HIDE DEF o
  <2> QED
    BY <1>2, <1>4, <2>1, <2>2, <2>3 DEF Fits
<1>5. ASSUME o.r \in {RstB, Clk0}, o.op \in {"put", "store", "clear", "assert"}
      PROVE  /\ \/ o.op = "clear" /\ k = "vhub"
                \/ o.op = "assert" /\ k = "vhub" /\ o.r = RstB
                \/ /\ o.op = "clear" /\ k = "gfx"
                   /\ (o.r = RstB /\ o.set = {12}) \/ (o.r = Clk0 /\ o.set \cap {7, 14} = {})
                \/ o.op = "assert" /\ k = "gfx" /\ o.r = Clk0 /\ o.set = {20}
             /\ \/ reg' = reg
                \/ o.op = "clear" /\ reg'[o.r] = reg[o.r] \ o.set
                \/ o.op = "assert" /\ reg'[o.r] = reg[o.r] \cup o.set
  <2>1. ~Owns(k, o.r)
    BY <1>5, OwnsOne
  <2>2. \/ o.op = "clear" /\ k = "vhub"
        \/ o.op = "assert" /\ k = "vhub" /\ o.r = RstB
        \/ /\ o.op = "clear" /\ k = "gfx"
           /\ (o.r = RstB /\ o.set = {12}) \/ (o.r = Clk0 /\ o.set \cap {7, 14} = {})
        \/ o.op = "assert" /\ k = "gfx" /\ o.r = Clk0 /\ o.set = {20}
    BY <1>2, <1>5, <2>1, Distinct DEF Fits
  <2>3. \/ reg' = reg
        \/ o.op = "clear" /\ reg'[o.r] = reg[o.r] \ o.set
        \/ o.op = "assert" /\ reg'[o.r] = reg[o.r] \cup o.set
    BY <1>2, <1>5, <2>2, Effects
  <2> QED
    BY <2>2, <2>3
<1>6. Clk0 # RstB
  BY Distinct
<1> HIDE DEF o
<1>7. ASSUME k # "vhub", NEW b \in {0, 3, 6, 7} PROVE b \in reg'[RstB] <=> b \in reg[RstB]
  BY <1>2, <1>4, <1>5, <1>6, <1>7 DEF Fits
<1>8. ASSUME k # "vhub", NEW b \in {7, 14} PROVE b \in reg'[Clk0] <=> b \in reg[Clk0]
  BY <1>2, <1>4, <1>5, <1>6, <1>8 DEF Fits
<1>9. ASSUME k # "gfx", 20 \in reg'[Clk0] PROVE 20 \in reg[Clk0]
  BY <1>2, <1>4, <1>5, <1>6, <1>9 DEF Fits
<1> QED
  BY <1>7, <1>8, <1>9

-----------------------------------------------------------------------------
(* Types.                                                                     *)

(* What a call changes when it begins.                                        *)
LEMMA Begins ==
  ASSUME Types, NEW k \in Packages, NEW c \in Calls(k), BeginCall(k, c)
  PROVE  /\ bootPc[k] = 0 /\ bootPc' = [bootPc EXCEPT ![k] = 1] /\ bootCall' = [bootCall EXCEPT ![k] = c]
         /\ ok' = [ok EXCEPT ![k] = TRUE] /\ bootCalls' = bootCalls + 1 /\ bootCalls' \in 0 .. MaxBringups
         /\ overlapped' = IF Busy = {} THEN overlapped \ {k} ELSE overlapped \cup Busy \cup {k}
         /\ report' = IF c.op = "InitSteps" THEN [report EXCEPT ![c.arg] = "none"] ELSE report
         /\ mac' = (mac /\ k # "net")
         /\ scuKey' = scuKey /\ reg' = reg /\ dead' = dead /\ tmp' = tmp /\ screen' = screen
<1>1. bootCalls < IF Busy \cup overlapped = {} THEN MaxBringups ELSE MaxMet
  BY DEF BeginCall
<1>2. bootCalls' = bootCalls + 1 /\ bootCalls \in 0 .. MaxBringups /\ MaxBringups \in Nat /\ MaxMet \in 0 .. MaxBringups
  BY BringupAssumption, Zenon DEF BeginCall, Types
<1>3. bootCalls' \in 0 .. MaxBringups
  BY <1>1, <1>2
<1> QED
  BY <1>3, Zenon DEF BeginCall

(* It holds at first.                                                         *)
LEMMA InitTypes == BootInit => Types
<1> SUFFICES ASSUME BootInit PROVE Types
  OBVIOUS
<1>1. scuKey \in [SCUs -> BOOLEAN] /\ DOMAIN reg = Registers
  BY DEF BootInit
<1>2. dead \subseteq AllPorts \cup {"D", "ehci"}
  BY BringupAssumption DEF BootInit, AllPorts
<1>3. /\ bootPc \in [Packages -> Nat] /\ DOMAIN bootCall = Packages /\ DOMAIN tmp = Packages
      /\ ok \in [Packages -> BOOLEAN] /\ \A k \in Packages : bootPc[k] = 0
  BY DEF BootInit
<1>4. bootCalls \in 0 .. MaxBringups /\ DOMAIN report = Ports \cup {"ehci"} /\ mac \in BOOLEAN
  <2>1. bootCalls \in 0 .. MaxBringups /\ DOMAIN report = Ports \cup {"ehci"}
    BY BringupAssumption DEF BootInit
  <2>2. mac \in BOOLEAN
    BY Zenon DEF BootInit
  <2> QED
    BY <2>1, <2>2
<1>5. screen \in {"off", "clocked", "timed", "on"} \X Nat /\ overlapped \subseteq Packages
  BY DEF BootInit
<1> QED
  BY <1>1, <1>2, <1>3, <1>4, <1>5 DEF Types

(* What the display shows after a call has the type of screen.                *)
LEMMA ScreenType ==
  ASSUME Types, NEW c \in Calls("gfx")
  PROVE  Screen(c) \in {"off", "clocked", "timed", "on"} \X Nat
<1>1. screen \in {"off", "clocked", "timed", "on"} \X Nat
  BY Zenon DEF Types
<1>2. c.arg \in Nat
  <2>1. c.arg \in Modes \/ c.arg = 5
    BY CallsOf
  <2>2. Modes \subseteq Nat
    BY BringupAssumption, Zenon
  <2>3. 5 \in Nat
    OBVIOUS
  <2> QED
    BY <2>1, <2>2, <2>3, Zenon
<1> QED
  BY <1>1, <1>2 DEF Screen

(* Every step keeps it.                                                       *)
LEMMA NextTypes == Types /\ [BootNext]_bootVars => Types'
<1> SUFFICES ASSUME Types, [BootNext]_bootVars PROVE Types'
  OBVIOUS
<1>1. CASE UNCHANGED bootVars
  BY <1>1 DEF bootVars, Types
<1>2. ASSUME NEW k \in Packages, NEW c \in Calls(k), BeginCall(k, c)
      PROVE  Types'
  <2> USE <1>2
  <2>1. /\ bootPc[k] = 0 /\ bootPc' = [bootPc EXCEPT ![k] = 1] /\ bootCall' = [bootCall EXCEPT ![k] = c]
        /\ ok' = [ok EXCEPT ![k] = TRUE] /\ bootCalls' \in 0 .. MaxBringups
        /\ overlapped' = IF Busy = {} THEN overlapped \ {k} ELSE overlapped \cup Busy \cup {k}
        /\ report' = IF c.op = "InitSteps" THEN [report EXCEPT ![c.arg] = "none"] ELSE report
        /\ mac' = (mac /\ k # "net")
        /\ scuKey' = scuKey /\ reg' = reg /\ dead' = dead /\ tmp' = tmp /\ screen' = screen
    BY Begins, Zenon
  <2>2. /\ bootPc \in [Packages -> Nat] /\ DOMAIN bootCall = Packages /\ ok \in [Packages -> BOOLEAN]
        /\ DOMAIN report = Ports \cup {"ehci"} /\ mac \in BOOLEAN /\ overlapped \subseteq Packages
    BY Zenon DEF Types
  <2>3. /\ bootPc' \in [Packages -> Nat] /\ bootPc'[k] = 1 /\ \A l \in Packages \ {k} : bootPc'[l] = bootPc[l]
        /\ DOMAIN bootCall' = Packages /\ bootCall'[k] = c /\ \A l \in Packages \ {k} : bootCall'[l] = bootCall[l]
        /\ DOMAIN report' = DOMAIN report /\ overlapped' \subseteq Packages
    BY <2>1, <2>2 DEF Busy
  <2>4. ok' \in [Packages -> BOOLEAN] /\ mac' \in BOOLEAN
    BY <2>1, <2>2, Zenon
  <2>5. 1 <= Len(Programs[k][c])
    <3>1. Len(Programs[k][c]) \in Nat \ {0}
      BY ProgramsFit, FitsEach
    <3> QED
      BY <3>1
  <2>6. \A l \in Packages : bootPc'[l] # 0 => bootCall'[l] \in Calls(l) /\ bootPc'[l] <= Len(Programs[l][bootCall'[l]])
    BY <2>3, <2>5 DEF Types
  <2>7. \A j \in Packages : bootPc'[j] # 0 /\ j \notin overlapped' => \A l \in Packages \ {j} : bootPc'[l] = 0
    <3>1. CASE Busy = {}
      BY <2>3, <3>1 DEF Busy
    <3>2. CASE Busy # {}
      BY <2>1, <2>3, <3>2 DEF Busy
    <3> QED
      BY <3>1, <3>2
  <2> QED
    BY <2>1, <2>2, <2>3, <2>4, <2>6, <2>7, Zenon DEF Types
<1>3. ASSUME NEW k \in Packages, Protect(k) \/ Read32(k) \/ Write32(k) \/ HCReset(k)
      PROVE  Types'
  <2> USE <1>3
  <2> DEFINE n == Len(ProgramOf(k, bootCall[k]))
  <2>1. bootPc[k] # 0
    BY DEF Protect, Read32, Write32, HCReset
  <2>2. /\ dead' = dead /\ bootCalls' = bootCalls /\ overlapped' = overlapped
        /\ bootPc' \in [Packages -> Nat] /\ ok' \in [Packages -> BOOLEAN]
        /\ DOMAIN bootCall' = Packages /\ DOMAIN tmp' = Packages
        /\ \A l \in Packages \ {k} : bootPc'[l] = bootPc[l] /\ bootCall'[l] = bootCall[l]
    BY Accesses, Zenon
  <2>3. \E good \in BOOLEAN :
          \/ /\ bootPc[k] # n /\ bootPc'[k] = bootPc[k] + 1 /\ bootCall'[k] = bootCall[k]
             /\ report' = report /\ mac' = mac /\ screen' = screen
          \/ /\ bootPc[k] = n /\ bootPc'[k] = 0
             /\ report' = Reported(k, good) /\ mac' = (IF k = "net" THEN TRUE ELSE mac)
             /\ screen' = (IF k = "gfx" THEN Screen(bootCall[k]) ELSE screen)
    BY Accesses, Zenon
  <2>4. /\ bootCall[k] \in Calls(k) /\ bootPc[k] \in 1 .. n /\ n \in Nat /\ Programs[k][bootCall[k]] = ProgramOf(k, bootCall[k])
    BY <2>1, OpFits
  <2>5. DOMAIN report = Ports \cup {"ehci"} /\ mac \in BOOLEAN
    BY DEF Types
  <2>6. DOMAIN report' = Ports \cup {"ehci"}
    BY <2>3, <2>5 DEF Reported
  <2>7. mac' \in BOOLEAN
    BY <2>3, <2>5, Zenon
  <2>8. screen' \in {"off", "clocked", "timed", "on"} \X Nat
    <3>1. screen \in {"off", "clocked", "timed", "on"} \X Nat
      BY Zenon DEF Types
    <3>2. k = "gfx" => Screen(bootCall[k]) \in {"off", "clocked", "timed", "on"} \X Nat
      BY <2>4, ScreenType
    <3> QED
      BY <2>3, <3>1, <3>2, Zenon
  <2>9. DOMAIN reg' = Registers
    BY Effects
  <2>10. scuKey' \in [SCUs -> BOOLEAN]
    BY DEF Types, Protect, Read32, Write32, HCReset
  <2>11. \A l \in Packages : bootPc'[l] # 0 => bootCall'[l] \in Calls(l) /\ bootPc'[l] <= Len(Programs[l][bootCall'[l]])
    <3>1. bootPc'[k] = 0 \/ (bootPc[k] # n /\ bootPc'[k] = bootPc[k] + 1 /\ bootCall'[k] = bootCall[k])
      BY <2>3, Zenon
    <3>2. bootPc'[k] # 0 => bootCall'[k] \in Calls(k) /\ bootPc'[k] <= Len(Programs[k][bootCall'[k]])
      BY <2>4, <3>1
    <3> QED
      BY <2>2, <3>2 DEF Types
  <2>12. \A j \in Packages : bootPc'[j] # 0 /\ j \notin overlapped' => \A l \in Packages \ {j} : bootPc'[l] = 0
    <3>1. \A j \in Packages : bootPc[j] # 0 /\ j \notin overlapped => \A l \in Packages \ {j} : bootPc[l] = 0
      BY Zenon DEF Types
    <3> QED
      BY <2>1, <2>2, <3>1
  <2> HIDE DEF n
  <2> QED
    BY <2>2, <2>6, <2>7, <2>8, <2>9, <2>10, <2>11, <2>12, Zenon DEF Types
<1> QED
  BY <1>1, <1>2, <1>3 DEF BootNext

(* Every call a package runs is one it has, its counter stays within the      *)
(* call's accesses, and calls stays within its bound.                         *)
THEOREM BringupTypeCorrect == BootSpec => []BringupTypeOK
<1>1. Types => BringupTypeOK
  BY DEF Types, BringupTypeOK
<1> QED
  BY <1>1, InitTypes, NextTypes, PTL DEF BootSpec

-----------------------------------------------------------------------------
(* The vHub's bring-up.                                                       *)

(* The n-th access of an InitSteps: what it accesses and what it wants.       *)
LEMMA VhubOps ==
  ASSUME NEW p
  PROVE  LET P == VhubInitSteps(p)  t == PortTable[p]
             ctrl == At("ctrl", p)  sw == At("swreset", p)  pctl == At("phyctrl", p)
             sts2 == At("sts2", t.phy)  sts3 == At("sts3", t.phy)
         IN
         /\ P[1].op \in {"unlock", "lock"} /\ P[7].op \in {"unlock", "lock"}
         /\ P[2].op = "load" /\ P[8].op = "load" /\ P[10].op = "load"
         /\ P[12].op = "load" /\ P[15].op = "load"
         /\ P[2].r = Mux0
         /\ P[3].op = "store" /\ P[3].r = Mux0 /\ P[3].clr = t.mask /\ P[3].set = t.bits
         /\ P[3].wantSet = t.bits /\ P[3].wantClr = t.mask \ t.bits
         /\ P[4].op = "assert" /\ P[4].r = RstB /\ P[4].set = {t.reset}
         /\ P[5].op = "clear" /\ P[5].r = Clk0 /\ P[5].wantClr = {t.clock}
         /\ P[6].op = "clear" /\ P[6].r = RstB /\ P[6].wantClr = {t.reset} \cup t.phyReset
         /\ P[9].op = "store" /\ P[9].r = sts2 /\ P[9].wantSet = {26, 27}
         /\ P[11].op = "store" /\ P[11].r = sts3 /\ P[11].wantSet = {22} /\ P[11].wantClr = {21, 22} \ {22}
         /\ P[13].op = "store" /\ P[13].r = ctrl /\ P[13].wantSet = {11}
         /\ P[14].op = "store" /\ P[14].r = ctrl
         /\ P[16].op = "store" /\ P[16].r = pctl /\ P[16].wantSet = {4}
         /\ P[17].op = "put" /\ P[17].r = ctrl /\ P[17].wantSet = {31, 11}
         /\ P[18].op = "put" /\ P[18].r = sw
         /\ P[19].op = "put" /\ P[19].r = sw /\ P[19].set = {}
         /\ t.quirk => P[20].op = "load" /\ P[20].r = pctl
         /\ t.quirk =>
              /\ P[21].op = "store" /\ P[21].r = pctl /\ P[21].clr = {} /\ P[21].set = {13}
              /\ P[21].wantSet = {13}
<1> DEFINE t == PortTable[p]
           ctrl == At("ctrl", p)
           sw == At("swreset", p)
           pctl == At("phyctrl", p)
           sts2 == At("sts2", t.phy)
           sts3 == At("sts3", t.phy)
           P == VhubInitSteps(p)
<1>1. /\ P[1].op \in {"unlock", "lock"} /\ P[7].op \in {"unlock", "lock"}
  <2>1. P[1] = Unlock("scu0") /\ P[7] = Lock("scu0")
    BY VhubProgram
  <2> HIDE DEF P, t, ctrl, sw, pctl, sts2, sts3
  <2> QED
    BY <2>1, KeyFields
<1>2. /\ P[2].op = "load" /\ P[8].op = "load" /\ P[10].op = "load"
      /\ P[12].op = "load" /\ P[15].op = "load"
  <2>1. P[2] = Load(Mux0) /\ P[8] = Load(sts2) /\ P[10] = Load(sts3) /\ P[12] = Load(ctrl) /\ P[15] = Load(pctl)
    BY VhubProgram
  <2> HIDE DEF P, t, ctrl, sw, pctl, sts2, sts3
  <2> QED
    BY <2>1, OpFields
<1>3. P[2].r = Mux0
  <2>1. P[2] = Load(Mux0)
    BY VhubProgram
  <2> HIDE DEF P, t, ctrl, sw, pctl, sts2, sts3
  <2> QED
    BY <2>1, OpFields
<1>4. /\ P[3].op = "store" /\ P[3].r = Mux0 /\ P[3].clr = t.mask /\ P[3].set = t.bits
      /\ P[3].wantSet = t.bits /\ P[3].wantClr = t.mask \ t.bits
  <2>1. P[3] = Want(Update(Mux0, t.mask, t.bits), t.bits, t.mask \ t.bits)
    BY VhubProgram
  <2> HIDE DEF P, t, ctrl, sw, pctl, sts2, sts3
  <2> QED
    BY <2>1, WantFields
<1>5. P[4].op = "assert" /\ P[4].r = RstB /\ P[4].set = {t.reset}
  <2>1. P[4] = Want(Raise(RstB, {t.reset}), {t.reset}, {})
    BY VhubProgram
  <2> HIDE DEF P, t, ctrl, sw, pctl, sts2, sts3
  <2> QED
    BY <2>1, WantFields
<1>6. P[5].op = "clear" /\ P[5].r = Clk0 /\ P[5].wantClr = {t.clock}
  <2>1. P[5] = Want(Clear(Clk0, {t.clock}), {}, {t.clock})
    BY VhubProgram
  <2> HIDE DEF P, t, ctrl, sw, pctl, sts2, sts3
  <2> QED
    BY <2>1, WantFields
<1>7. P[6].op = "clear" /\ P[6].r = RstB /\ P[6].wantClr = {t.reset} \cup t.phyReset
  <2>1. P[6] = Want(Clear(RstB, {t.reset} \cup t.phyReset), {}, {t.reset} \cup t.phyReset)
    BY VhubProgram
  <2> HIDE DEF P, t, ctrl, sw, pctl, sts2, sts3
  <2> QED
    BY <2>1, WantFields
<1>8. P[9].op = "store" /\ P[9].r = sts2 /\ P[9].wantSet = {26, 27}
  <2>1. P[9] = Want(Update(sts2, {26, 27}, {26, 27}), {26, 27}, {26, 27} \ {26, 27})
    BY VhubProgram
  <2> HIDE DEF P, t, ctrl, sw, pctl, sts2, sts3
  <2> QED
    BY <2>1, WantFields
<1>9. P[11].op = "store" /\ P[11].r = sts3 /\ P[11].wantSet = {22} /\ P[11].wantClr = {21, 22} \ {22}
  <2>1. P[11] = Want(Update(sts3, {21, 22}, {22}), {22}, {21, 22} \ {22})
    BY VhubProgram
  <2> HIDE DEF P, t, ctrl, sw, pctl, sts2, sts3
  <2> QED
    BY <2>1, WantFields
<1>10. P[13].op = "store" /\ P[13].r = ctrl /\ P[13].wantSet = {11}
  <2>1. P[13] = Want(Update(ctrl, {}, {11}), {11}, {})
    BY VhubProgram
  <2> HIDE DEF P, t, ctrl, sw, pctl, sts2, sts3
  <2> QED
    BY <2>1, WantFields
<1>11. P[14].op = "store" /\ P[14].r = ctrl
  <2>1. P[14] = Update(ctrl, {}, {})
    BY VhubProgram
  <2> HIDE DEF P, t, ctrl, sw, pctl, sts2, sts3
  <2> QED
    BY <2>1, OpFields
<1>12. P[16].op = "store" /\ P[16].r = pctl /\ P[16].wantSet = {4}
  <2>1. P[16] = Want(Update(pctl, {}, {4}), {4}, {} \ {4})
    BY VhubProgram
  <2> HIDE DEF P, t, ctrl, sw, pctl, sts2, sts3
  <2> QED
    BY <2>1, WantFields
<1>13. P[17].op = "put" /\ P[17].r = ctrl /\ P[17].wantSet = {31, 11}
  <2>1. P[17] = Want(Put(ctrl, {31, 11}), {31, 11}, {})
    BY VhubProgram
  <2> HIDE DEF P, t, ctrl, sw, pctl, sts2, sts3
  <2> QED
    BY <2>1, WantFields
<1>14. P[18].op = "put" /\ P[18].r = sw
  <2>1. P[18] = Put(sw, {0})
    BY VhubProgram
  <2> HIDE DEF P, t, ctrl, sw, pctl, sts2, sts3
  <2> QED
    BY <2>1, OpFields
<1>15. P[19].op = "put" /\ P[19].r = sw /\ P[19].set = {}
  <2>1. P[19] = Want(Put(sw, {}), {}, {0})
    BY VhubProgram
  <2> HIDE DEF P, t, ctrl, sw, pctl, sts2, sts3
  <2> QED
    BY <2>1, WantFields
<1>16. ASSUME t.quirk
      PROVE  P[20].op = "load" /\ P[20].r = pctl
  <2>1. P[20] = Load(pctl)
    BY <1>16, VhubProgram
  <2> HIDE DEF P, t, ctrl, sw, pctl, sts2, sts3
  <2> QED
    BY <2>1, OpFields
<1>17. ASSUME t.quirk
      PROVE  /\ P[21].op = "store" /\ P[21].r = pctl /\ P[21].clr = {} /\ P[21].set = {13}
             /\ P[21].wantSet = {13}
  <2>1. P[21] = Want(Update(pctl, {}, {13}), {13}, {} \ {13})
    BY <1>17, VhubProgram
  <2> HIDE DEF P, t, ctrl, sw, pctl, sts2, sts3
  <2> QED
    BY <2>1, WantFields
<1> QED
  BY <1>1, <1>2, <1>3, <1>4, <1>5, <1>6, <1>7, <1>8, <1>9, <1>10, <1>11, <1>12, <1>13, <1>14, <1>15, <1>16, <1>17

(* The access that an InitSteps is at.                                        *)
LEMMA VhubNow ==
  ASSUME Types, NEW p \in Ports, InitOf(p)
  PROVE  LET n == bootPc["vhub"]  N == Len(ProgramOf("vhub", bootCall["vhub"]))
         IN /\ n \in 1 .. 21 /\ n <= N /\ (n \in {20, 21} => PortTable[p].quirk)
            /\ (N = 21 /\ PortTable[p].quirk) \/ (N = 19 /\ ~PortTable[p].quirk)
            /\ Op("vhub") = VhubInitSteps(p)[n]
            /\ p \in AllPorts /\ PortTable[p].phy \in AllPorts
<1> DEFINE P == ProgramOf("vhub", bootCall["vhub"])
           n == bootPc["vhub"]
<1>1. "vhub" \in Packages /\ n # 0 /\ bootCall["vhub"] = C("InitSteps", p)
  BY DEF InitOf, Packages
<1>2. Len(P) \in Nat \ {0} /\ n \in 1 .. Len(P) /\ Op("vhub") = P[n]
  BY <1>1, OpFits
<1>3. P = VhubInitSteps(p)
  BY <1>1, ProgramsOf
<1>4. (Len(P) = 21 /\ PortTable[p].quirk) \/ (Len(P) = 19 /\ ~PortTable[p].quirk)
  <2>1. LET Q == VhubInitSteps(p)
        IN (Len(Q) = 21 /\ PortTable[p].quirk) \/ (Len(Q) = 19 /\ ~PortTable[p].quirk)
    BY VhubProgram
  <2> HIDE DEF P
  <2> QED
    BY <1>3, <2>1, Zenon
<1>5. p \in AllPorts /\ PortTable[p].phy \in AllPorts
  BY BringupAssumption, PortFields DEF AllPorts
<1> HIDE DEF P, n
<1>6. n \in 1 .. 21 /\ n <= Len(P) /\ (n \in {20, 21} => PortTable[p].quirk)
  <2>1. CASE Len(P) = 21 /\ PortTable[p].quirk
    BY <1>2, <2>1
  <2>2. CASE Len(P) = 19
    BY <1>2, <2>2
  <2> QED
    BY <1>4, <2>1, <2>2
<1> QED
  BY <1>2, <1>3, <1>4, <1>5, <1>6 DEF P, n

(* Which register an InitSteps writes, and which its reset clears.            *)
LEMMA VhubTouches ==
  ASSUME Types, NEW p \in Ports, InitOf(p), NEW n, n = bootPc["vhub"],
         Protect("vhub") \/ Read32("vhub") \/ Write32("vhub") \/ HCReset("vhub"),
         NEW x \in Registers
  PROVE  \/ reg'[x] = reg[x]
         \/ n = 3 /\ x = Mux0
         \/ n = 4 /\ (x = RstB \/ (x[2] = p /\ reg'[x] = {}))
         \/ n = 5 /\ x = Clk0
         \/ n = 6 /\ x = RstB
         \/ n = 9 /\ x = At("sts2", PortTable[p].phy)
         \/ n = 11 /\ x = At("sts3", PortTable[p].phy)
         \/ n \in {13, 14, 17} /\ x = At("ctrl", p)
         \/ n \in {16, 21} /\ x = At("phyctrl", p)
         \/ n \in {18, 19} /\ x = At("swreset", p)
<1> DEFINE o == Op("vhub")
           t == PortTable[p]
           ctrl == At("ctrl", p)
           sw == At("swreset", p)
           pctl == At("phyctrl", p)
           sts2 == At("sts2", t.phy)
           sts3 == At("sts3", t.phy)
<1>1. /\ n \in 1 .. 21 /\ (n \in {20, 21} => t.quirk) /\ o = VhubInitSteps(p)[n] /\ p \in AllPorts
  BY VhubNow
<1>2. /\ n \in {1, 7} => o.op \in {"unlock", "lock"}
      /\ n \in {2, 8, 10, 12, 15, 20} => o.op = "load"
      /\ n = 3 => o.op = "store" /\ o.r = Mux0
      /\ n = 4 => o.op = "assert" /\ o.r = RstB /\ o.set = {t.reset}
      /\ n = 5 => o.op = "clear" /\ o.r = Clk0
      /\ n = 6 => o.op = "clear" /\ o.r = RstB
      /\ n = 9 => o.op = "store" /\ o.r = sts2
      /\ n = 11 => o.op = "store" /\ o.r = sts3
      /\ n \in {13, 14, 17} => o.op \in {"put", "store"} /\ o.r = ctrl
      /\ n \in {16, 21} => o.op \in {"put", "store"} /\ o.r = pctl
      /\ n \in {18, 19} => o.op \in {"put", "store"} /\ o.r = sw
  <2> HIDE DEF o
  <2> QED
    BY <1>1, VhubOps
<1>3. /\ o.op \in {"unlock", "lock", "load"} => reg' = reg
      /\ o.op \in {"put", "store", "clear"} => (x # o.r => reg'[x] = reg[x])
      /\ o.op = "assert" => (x # o.r =>
           \/ reg'[x] = reg[x]
           \/ /\ \E b \in o.set : ResetOf(x[2]) # <<>> /\ ResetOf(x[2])[1] = o.r /\ ResetOf(x[2])[2] = b
              /\ reg'[x] = {})
  <2>1. "vhub" \in Packages
    BY DEF Packages
  <2> QED
    BY <2>1, Effects
<1>4. ASSUME NEW b \in {t.reset}, ResetOf(x[2]) # <<>>, ResetOf(x[2])[1] = RstB, ResetOf(x[2])[2] = b
      PROVE  x[2] = p
  <2>1. x[2] \in AllPorts
    BY <1>4, Resets, Distinct
  <2>2. PortTable[x[2]].reset = PortTable[p].reset
    BY <1>4, <2>1, Resets
  <2> QED
    BY <1>1, <2>1, <2>2 DEF AllPorts, PortTable
<1> HIDE DEF o, t, ctrl, sw, pctl, sts2, sts3
<1>5. CASE n \in {1, 2, 7, 8, 10, 12, 15, 20}
  BY <1>2, <1>3, <1>5
<1>6. CASE n = 4
  BY <1>2, <1>3, <1>4, <1>6
<1>7. CASE n \in {3, 5, 6, 9, 11}
  BY <1>2, <1>3, <1>7 DEF sts2, sts3, t
<1>8. CASE n \in {13, 14, 16, 17, 18, 19, 21}
  BY <1>2, <1>3, <1>8 DEF ctrl, pctl, sw
<1> QED
  BY <1>1, <1>5, <1>6, <1>7, <1>8

(* A value that is read back, and not empty, is there.                        *)
LEMMA ReadsBack ==
  ASSUME Types, NEW x, NEW S, NEW b \in S, S \subseteq Reading(x, reg')
  PROVE  Live(x[2], reg') /\ S \subseteq reg'[x] /\ Reading(x, reg') = reg'[x]
  BY DEF Reading

(* An access that is OK brings the InitSteps one access further.              *)
LEMMA VhubAdvances ==
  ASSUME Types, NEW p \in Ports, InitOf(p), NEW n, n = bootPc["vhub"], VhubDone(p, n),
         Protect("vhub") \/ Read32("vhub") \/ Write32("vhub") \/ HCReset("vhub"),
         dead' = dead, NEW o, o = Op("vhub"),
         o.op \notin {"unlock", "lock", "load"} => OK(o, Reading(o.r, reg')),
         n = 20 => tmp'["vhub"] = Reading(o.r, reg)
  PROVE  VhubDone(p, n + 1)'
<1> DEFINE t == PortTable[p]
           ctrl == At("ctrl", p)
           sw == At("swreset", p)
           pctl == At("phyctrl", p)
           sts2 == At("sts2", t.phy)
           sts3 == At("sts3", t.phy)
<1>1. /\ n \in 1 .. 21 /\ (n \in {20, 21} => t.quirk) /\ o = VhubInitSteps(p)[n]
      /\ p \in AllPorts /\ t.phy \in AllPorts
  BY VhubNow
<1>2. /\ {Mux0, Clk0, RstB, ctrl, sw, pctl, sts2, sts3} \subseteq Registers
      /\ ctrl[2] = p /\ sw[2] = p /\ pctl[2] = p /\ sts2[2] = t.phy /\ sts3[2] = t.phy
      /\ Mux0[2] = "scu0" /\ Clk0[2] = "scu0" /\ RstB[2] = "scu0"
  BY RegistersHas, Distinct
<1>3. /\ n # 3 => reg'[Mux0] = reg[Mux0]
      /\ n # 5 => reg'[Clk0] = reg[Clk0]
      /\ n \notin {4, 6} => reg'[RstB] = reg[RstB]
  <2>1. p # "scu0"
    BY <1>1 DEF AllPorts
  <2>2. /\ Mux0 \notin {Clk0, RstB, ctrl, sw, pctl, sts2, sts3}
        /\ Clk0 \notin {Mux0, RstB, ctrl, sw, pctl, sts2, sts3}
        /\ RstB \notin {Mux0, Clk0, ctrl, sw, pctl, sts2, sts3}
    BY Distinct
  <2> QED
    BY <1>1, <1>2, <2>1, <2>2, VhubTouches
<1>4. /\ n \notin {4, 13, 14, 17} => reg'[ctrl] = reg[ctrl]
      /\ n \notin {4, 16, 21} => reg'[pctl] = reg[pctl]
      /\ n \notin {4, 18, 19} => reg'[sw] = reg[sw]
      /\ n \notin {4, 9} => reg'[sts2] = reg[sts2]
      /\ n \notin {4, 11} => reg'[sts3] = reg[sts3]
  <2>1. /\ ctrl \notin {Mux0, Clk0, RstB, sw, pctl, sts2, sts3}
        /\ pctl \notin {Mux0, Clk0, RstB, sw, ctrl, sts2, sts3}
        /\ sw \notin {Mux0, Clk0, RstB, ctrl, pctl, sts2, sts3}
        /\ sts2 \notin {Mux0, Clk0, RstB, sw, ctrl, pctl, sts3}
        /\ sts3 \notin {Mux0, Clk0, RstB, sw, ctrl, pctl, sts2}
    BY Distinct
  <2> QED
    BY <1>1, <1>2, <2>1, VhubTouches
<1>5. /\ n > 3 => reg[Mux0] \cap t.mask = t.bits
      /\ n > 5 => t.clock \notin reg[Clk0]
      /\ n > 6 => ({t.reset} \cup t.phyReset) \cap reg[RstB] = {}
      /\ n > 9 => t.phy \notin dead /\ {26, 27} \subseteq reg[sts2]
      /\ n > 11 => 22 \in reg[sts3] /\ 21 \notin reg[sts3]
      /\ n > 13 => p \notin dead
      /\ n > 16 => 4 \in reg[pctl]
      /\ n > 17 => {31, 11} \subseteq reg[ctrl]
      /\ n > 19 => reg[sw] = {}
      /\ n = 21 => 4 \in tmp["vhub"]
      /\ n > 21 => 13 \in reg[pctl]
  BY DEF VhubDone
<1>6. /\ n = 3 => o.op = "store" /\ o.r = Mux0 /\ o.wantSet = t.bits /\ o.wantClr = t.mask \ t.bits
      /\ n = 5 => o.op = "clear" /\ o.r = Clk0 /\ o.wantClr = {t.clock}
      /\ n = 6 => o.op = "clear" /\ o.r = RstB /\ o.wantClr = {t.reset} \cup t.phyReset
      /\ n = 9 => o.op = "store" /\ o.r = sts2 /\ o.wantSet = {26, 27}
      /\ n = 11 => o.op = "store" /\ o.r = sts3 /\ o.wantSet = {22} /\ o.wantClr = {21, 22} \ {22}
      /\ n = 13 => o.op = "store" /\ o.r = ctrl /\ o.wantSet = {11}
      /\ n = 16 => o.op = "store" /\ o.r = pctl /\ o.wantSet = {4}
      /\ n = 17 => o.op = "put" /\ o.r = ctrl /\ o.wantSet = {31, 11}
      /\ n = 19 => o.op = "put" /\ o.r = sw /\ o.set = {}
      /\ n = 20 => o.r = pctl
      /\ n = 21 => o.op = "store" /\ o.r = pctl /\ o.clr = {} /\ o.set = {13} /\ o.wantSet = {13}
  <2>1. /\ n = 3 => o.op = "store" /\ o.r = Mux0 /\ o.wantSet = t.bits /\ o.wantClr = t.mask \ t.bits
        /\ n = 5 => o.op = "clear" /\ o.r = Clk0 /\ o.wantClr = {t.clock}
        /\ n = 6 => o.op = "clear" /\ o.r = RstB /\ o.wantClr = {t.reset} \cup t.phyReset
        /\ n = 9 => o.op = "store" /\ o.r = sts2 /\ o.wantSet = {26, 27}
    BY <1>1, VhubOps
  <2>2. /\ n = 11 => o.op = "store" /\ o.r = sts3 /\ o.wantSet = {22} /\ o.wantClr = {21, 22} \ {22}
        /\ n = 13 => o.op = "store" /\ o.r = ctrl /\ o.wantSet = {11}
    BY <1>1, VhubOps
  <2>3. /\ n = 16 => o.op = "store" /\ o.r = pctl /\ o.wantSet = {4}
        /\ n = 17 => o.op = "put" /\ o.r = ctrl /\ o.wantSet = {31, 11}
    BY <1>1, VhubOps
  <2>4. /\ n = 19 => o.op = "put" /\ o.r = sw /\ o.set = {}
        /\ n = 20 => o.r = pctl
        /\ n = 21 => o.op = "store" /\ o.r = pctl /\ o.clr = {} /\ o.set = {13} /\ o.wantSet = {13}
    BY <1>1, VhubOps
  <2> QED
    BY <2>1, <2>2, <2>3, <2>4
<1> HIDE DEF t, ctrl, sw, pctl, sts2, sts3
<1>7. n = 3 => reg'[Mux0] \cap t.mask = t.bits
  <2> SUFFICES ASSUME n = 3 PROVE reg'[Mux0] \cap t.mask = t.bits
    OBVIOUS
  <2>1. o.op = "store" /\ o.r = Mux0 /\ o.wantSet = t.bits /\ o.wantClr = t.mask \ t.bits
    BY <1>6
  <2>2. Reading(Mux0, reg') = reg'[Mux0]
    BY <1>2, Lives DEF Reading
  <2>3. t.bits \subseteq reg'[Mux0] /\ (t.mask \ t.bits) \cap reg'[Mux0] = {}
    BY <2>1, <2>2 DEF OK
  <2>4. t.bits \subseteq t.mask
    BY <1>1 DEF t, PortTable, AllPorts
  <2> QED
    BY <2>3, <2>4
<1>8. n = 5 => t.clock \notin reg'[Clk0]
  <2> SUFFICES ASSUME n = 5 PROVE t.clock \notin reg'[Clk0]
    OBVIOUS
  <2>1. o.op = "clear" /\ o.r = Clk0 /\ o.wantClr = {t.clock}
    BY <1>6
  <2>2. Reading(Clk0, reg') = reg'[Clk0]
    BY <1>2, Lives DEF Reading
  <2> QED
    BY <2>1, <2>2 DEF OK
<1>9. n = 6 => ({t.reset} \cup t.phyReset) \cap reg'[RstB] = {}
  <2> SUFFICES ASSUME n = 6 PROVE ({t.reset} \cup t.phyReset) \cap reg'[RstB] = {}
    OBVIOUS
  <2>1. o.op = "clear" /\ o.r = RstB /\ o.wantClr = {t.reset} \cup t.phyReset
    BY <1>6
  <2>2. Reading(RstB, reg') = reg'[RstB]
    BY <1>2, Lives DEF Reading
  <2> QED
    BY <2>1, <2>2 DEF OK
<1>10. n = 9 => t.phy \notin dead /\ {26, 27} \subseteq reg'[sts2]
  <2> SUFFICES ASSUME n = 9 PROVE t.phy \notin dead /\ {26, 27} \subseteq reg'[sts2]
    OBVIOUS
  <2>1. o.op = "store" /\ o.r = sts2 /\ o.wantSet = {26, 27}
    BY <1>6
  <2>2. {26, 27} \subseteq Reading(sts2, reg')
    BY <2>1 DEF OK
  <2> QED
    BY <1>1, <1>2, <2>2, ReadsBack, Lives
<1>11. n = 11 => 22 \in reg'[sts3] /\ 21 \notin reg'[sts3]
  <2> SUFFICES ASSUME n = 11 PROVE 22 \in reg'[sts3] /\ 21 \notin reg'[sts3]
    OBVIOUS
  <2>1. o.op = "store" /\ o.r = sts3 /\ o.wantSet = {22} /\ o.wantClr = {21, 22} \ {22}
    BY <1>6
  <2>2. {22} \subseteq Reading(sts3, reg') /\ 21 \notin Reading(sts3, reg')
    BY <2>1 DEF OK
  <2>3. Reading(sts3, reg') = reg'[sts3]
    BY <2>2, ReadsBack
  <2> QED
    BY <2>2, <2>3
<1>12. n = 13 => p \notin dead
  <2> SUFFICES ASSUME n = 13 PROVE p \notin dead
    OBVIOUS
  <2>1. o.op = "store" /\ o.r = ctrl /\ o.wantSet = {11}
    BY <1>6
  <2>2. {11} \subseteq Reading(ctrl, reg')
    BY <2>1 DEF OK
  <2> QED
    BY <1>1, <1>2, <2>2, ReadsBack, Lives
<1>13. n = 16 => 4 \in reg'[pctl]
  <2> SUFFICES ASSUME n = 16 PROVE 4 \in reg'[pctl]
    OBVIOUS
  <2>1. o.op = "store" /\ o.r = pctl /\ o.wantSet = {4}
    BY <1>6
  <2>2. {4} \subseteq Reading(pctl, reg')
    BY <2>1 DEF OK
  <2> QED
    BY <2>2, ReadsBack
<1>14. n = 17 => {31, 11} \subseteq reg'[ctrl]
  <2> SUFFICES ASSUME n = 17 PROVE {31, 11} \subseteq reg'[ctrl]
    OBVIOUS
  <2>1. o.op = "put" /\ o.r = ctrl /\ o.wantSet = {31, 11}
    BY <1>6
  <2>2. {31, 11} \subseteq Reading(ctrl, reg')
    BY <2>1 DEF OK
  <2> QED
    BY <2>2, ReadsBack
<1>15. n > 13 => Live(p, reg)
  <2> SUFFICES ASSUME n > 13 PROVE Live(p, reg)
    OBVIOUS
  <2>1. /\ p \notin dead /\ t.clock \notin reg[Clk0] /\ t.reset \notin reg[RstB]
        /\ t.phyReset \cap reg[RstB] = {}
    BY <1>1, <1>5
  <2> QED
    BY <1>1, <2>1, Lives DEF t
<1>16. n = 19 => reg'[sw] = {}
  <2> SUFFICES ASSUME n = 19 PROVE reg'[sw] = {}
    OBVIOUS
  <2>1. o.op = "put" /\ o.r = sw /\ o.set = {}
    BY <1>6
  <2>2. Writable(sw)
    BY <1>1, <1>2, <1>15 DEF Writable, SCUs, AllPorts
  <2>3. "vhub" \in Packages
    BY DEF Packages
  <2> QED
    BY <1>2, <2>1, <2>2, <2>3, Effects
<1>17. n = 20 => 4 \in tmp'["vhub"]
  <2> SUFFICES ASSUME n = 20 PROVE 4 \in tmp'["vhub"]
    OBVIOUS
  <2>1. o.r = pctl
    BY <1>6
  <2> QED
    BY <1>1, <1>2, <1>5, <1>15, <2>1 DEF Reading
<1>18. n = 21 => 4 \in reg'[pctl] /\ 13 \in reg'[pctl]
  <2> SUFFICES ASSUME n = 21 PROVE 4 \in reg'[pctl] /\ 13 \in reg'[pctl]
    OBVIOUS
  <2>1. o.op = "store" /\ o.r = pctl /\ o.clr = {} /\ o.set = {13} /\ o.wantSet = {13}
    BY <1>6
  <2>2. {13} \subseteq Reading(pctl, reg')
    BY <2>1 DEF OK
  <2>3. 13 \in reg'[pctl]
    BY <2>2, ReadsBack
  <2>4. "vhub" \in Packages
    BY DEF Packages
  <2>5. reg' = reg \/ reg'[pctl] = (tmp["vhub"] \ {}) \cup {13}
    BY <1>2, <2>1, <2>4, Effects
  <2> QED
    BY <1>5, <2>3, <2>5
<1>19. /\ n + 1 > 3 => reg'[Mux0] \cap t.mask = t.bits
       /\ n + 1 > 5 => t.clock \notin reg'[Clk0]
       /\ n + 1 > 6 => ({t.reset} \cup t.phyReset) \cap reg'[RstB] = {}
       /\ n + 1 > 9 => t.phy \notin dead /\ {26, 27} \subseteq reg'[sts2]
       /\ n + 1 > 11 => 22 \in reg'[sts3] /\ 21 \notin reg'[sts3]
  BY <1>1, <1>3, <1>4, <1>5, <1>7, <1>8, <1>9, <1>10, <1>11
<1>20. /\ n + 1 > 13 => p \notin dead
       /\ n + 1 > 16 => 4 \in reg'[pctl]
       /\ n + 1 > 17 => {31, 11} \subseteq reg'[ctrl]
       /\ n + 1 > 19 => reg'[sw] = {}
       /\ n + 1 = 21 => 4 \in tmp'["vhub"]
       /\ n + 1 > 21 => 13 \in reg'[pctl]
  BY <1>1, <1>4, <1>5, <1>12, <1>13, <1>14, <1>16, <1>17, <1>18
<1> QED
  BY <1>19, <1>20 DEF VhubDone, t, ctrl, sw, pctl, sts2, sts3

(* It leaves every other port up, and the PHYs it does not share.             *)
LEMMA VhubKeeps ==
  ASSUME Types, NEW p \in Ports, InitOf(p), NEW q \in Ports,
         Protect("vhub") \/ Read32("vhub") \/ Write32("vhub") \/ HCReset("vhub"),
         dead' = dead, bootPc["vhub"] = 3 => tmp["vhub"] = reg[Mux0]
  PROVE  /\ q # p /\ PortUp(q) => PortUp(q)'
         /\ PortTable[q].phy # PortTable[p].phy /\ PhyUp(PortTable[q].phy) => PhyUp(PortTable[q].phy)'
<1> DEFINE n == bootPc["vhub"]
           o == Op("vhub")
           t == PortTable[p]
           w == PortTable[q]
           ctrl == At("ctrl", q)
           sw == At("swreset", q)
           pctl == At("phyctrl", q)
           sts2 == At("sts2", w.phy)
           sts3 == At("sts3", w.phy)
<1>1. /\ n \in 1 .. 21 /\ o = VhubInitSteps(p)[n] /\ p \in AllPorts /\ t.phy \in AllPorts
      /\ q \in AllPorts /\ w.phy \in AllPorts
  BY VhubNow, BringupAssumption, PortFields DEF AllPorts
<1>2. /\ {Mux0, Clk0, RstB, ctrl, sw, pctl, sts2, sts3} \subseteq Registers
      /\ ctrl[2] = q /\ sw[2] = q /\ pctl[2] = q /\ sts2[2] = w.phy /\ sts3[2] = w.phy
      /\ Mux0[2] = "scu0" /\ Clk0[2] = "scu0" /\ RstB[2] = "scu0" /\ p # "scu0"
  BY <1>1, RegistersHas, Distinct DEF AllPorts
<1>3. /\ n # 3 => reg'[Mux0] = reg[Mux0]
      /\ n # 5 => reg'[Clk0] = reg[Clk0]
      /\ n \notin {4, 6} => reg'[RstB] = reg[RstB]
  <2>1. \A u : /\ Mux0 \notin {Clk0, RstB, At("sts2", u), At("sts3", u), At("ctrl", u), At("phyctrl", u),
                               At("swreset", u)}
               /\ Clk0 \notin {Mux0, RstB, At("sts2", u), At("sts3", u), At("ctrl", u), At("phyctrl", u),
                               At("swreset", u)}
               /\ RstB \notin {Mux0, Clk0, At("sts2", u), At("sts3", u), At("ctrl", u), At("phyctrl", u),
                               At("swreset", u)}
    BY Distinct
  <2> HIDE DEF n
  <2> QED
    BY <1>1, <1>2, <2>1, VhubTouches DEF n
<1>4. q # p => reg'[ctrl] = reg[ctrl] /\ reg'[pctl] = reg[pctl] /\ reg'[sw] = reg[sw]
  <2> SUFFICES ASSUME q # p PROVE reg'[ctrl] = reg[ctrl] /\ reg'[pctl] = reg[pctl] /\ reg'[sw] = reg[sw]
    OBVIOUS
  <2>1. ASSUME NEW x \in {ctrl, pctl, sw}
        PROVE  /\ x \notin {Mux0, Clk0, RstB, At("sts2", t.phy), At("sts3", t.phy)}
               /\ x \notin {At("ctrl", p), At("phyctrl", p), At("swreset", p)} /\ x[2] # p /\ x \in Registers
    BY <1>2, Distinct
  <2> QED
    BY <2>1, VhubTouches
<1>5. w.phy # t.phy => reg'[sts2] = reg[sts2] /\ reg'[sts3] = reg[sts3]
  <2> SUFFICES ASSUME w.phy # t.phy PROVE reg'[sts2] = reg[sts2] /\ reg'[sts3] = reg[sts3]
    OBVIOUS
  <2>1. w.phy # p
    BY <1>1 DEF PortTable, AllPorts
  <2>2. ASSUME NEW x \in {sts2, sts3}
        PROVE  /\ x \notin {Mux0, Clk0, RstB, At("sts2", t.phy), At("sts3", t.phy)}
               /\ x \notin {At("ctrl", p), At("phyctrl", p), At("swreset", p)} /\ x[2] # p /\ x \in Registers
    BY <1>2, <2>1, Distinct
  <2> QED
    BY <2>2, VhubTouches
<1>6. "vhub" \in Packages
  BY DEF Packages
<1>7. \A b : b \in reg'[Clk0] => b \in reg[Clk0]
  <2>1. CASE n # 5
    BY <1>3, <2>1
  <2>2. CASE n = 5
    <3>1. o.op = "clear" /\ o.r = Clk0
      BY <1>1, <2>2, VhubOps
    <3>2. reg' = reg \/ reg'[Clk0] = reg[Clk0] \ o.set
      BY <1>2, <1>6, <3>1, Effects
    <3> QED
      BY <3>2
  <2> QED
    BY <2>1, <2>2
<1>8. \A b : b \in reg'[RstB] => b \in reg[RstB] \/ b = t.reset
  <2>1. CASE n \notin {4, 6}
    BY <1>3, <2>1
  <2>2. CASE n = 4
    <3>1. o.op = "assert" /\ o.r = RstB /\ o.set = {t.reset}
      BY <1>1, <2>2, VhubOps
    <3>2. reg' = reg \/ reg'[RstB] = reg[RstB] \cup {t.reset}
      BY <1>2, <1>6, <3>1, Effects
    <3> QED
      BY <3>2
  <2>3. CASE n = 6
    <3>1. o.op = "clear" /\ o.r = RstB
      BY <1>1, <2>3, VhubOps
    <3>2. reg' = reg \/ reg'[RstB] = reg[RstB] \ o.set
      BY <1>2, <1>6, <3>1, Effects
    <3> QED
      BY <3>2
  <2> QED
    BY <2>1, <2>2, <2>3
<1>9. q # p /\ reg[Mux0] \cap w.mask = w.bits => reg'[Mux0] \cap w.mask = w.bits
  <2> SUFFICES ASSUME q # p, reg[Mux0] \cap w.mask = w.bits PROVE reg'[Mux0] \cap w.mask = w.bits
    OBVIOUS
  <2>1. CASE n # 3
    BY <1>3, <2>1
  <2>2. CASE n = 3
    <3>1. o.op = "store" /\ o.r = Mux0 /\ o.clr = t.mask /\ o.set = t.bits
      BY <1>1, <2>2, VhubOps
    <3>2. reg' = reg \/ reg'[Mux0] = (tmp["vhub"] \ t.mask) \cup t.bits
      BY <1>2, <1>6, <3>1, Effects
    <3>3. tmp["vhub"] = reg[Mux0]
      BY <2>2
    <3>4. ((reg[Mux0] \ t.mask) \cup t.bits) \cap w.mask = w.bits
      <4>1. /\ \A b \in t.bits : b \in w.mask => b \in w.bits
            /\ \A b \in w.bits : b \in t.mask => b \in t.bits
        BY <1>1 DEF PortTable, AllPorts
      <4> HIDE DEF t, w
      <4> QED
        BY <4>1
    <3> QED
      BY <3>2, <3>3, <3>4
  <2> QED
    BY <2>1, <2>2
<1>10. (q # p => w.reset # t.reset) /\ (w.phy # t.phy => PortTable[w.phy].reset # t.reset)
  BY <1>1 DEF PortTable, AllPorts
<1>11. ASSUME q # p, PortUp(q) PROVE PortUp(q)'
  <2>1. /\ q \notin dead /\ w.clock \notin reg[Clk0] /\ w.reset \notin reg[RstB]
        /\ reg[Mux0] \cap w.mask = w.bits
        /\ {31, 11} \subseteq reg[ctrl] /\ 4 \in reg[pctl]
        /\ reg[sw] = {} /\ (w.quirk => 13 \in reg[pctl])
    BY <1>11 DEF PortUp
  <2> HIDE DEF w, ctrl, pctl, sw
  <2>2. /\ q \notin dead' /\ w.clock \notin reg'[Clk0] /\ w.reset \notin reg'[RstB]
        /\ reg'[Mux0] \cap w.mask = w.bits
        /\ {31, 11} \subseteq reg'[ctrl] /\ 4 \in reg'[pctl]
        /\ reg'[sw] = {} /\ (w.quirk => 13 \in reg'[pctl])
    BY <1>4, <1>7, <1>8, <1>9, <1>10, <1>11, <2>1
  <2> QED
    BY <2>2 DEF PortUp, w, ctrl, pctl, sw
<1>12. ASSUME w.phy # t.phy, PhyUp(w.phy) PROVE PhyUp(w.phy)'
  <2> DEFINE u == w.phy
  <2>1. /\ u \notin dead /\ PortTable[u].clock \notin reg[Clk0] /\ PortTable[u].reset \notin reg[RstB]
        /\ {26, 27} \subseteq reg[sts2] /\ 22 \in reg[sts3] /\ 21 \notin reg[sts3]
    BY <1>12 DEF PhyUp
  <2> HIDE DEF w, t, sts2, sts3
  <2>2. /\ u \notin dead' /\ PortTable[u].clock \notin reg'[Clk0] /\ PortTable[u].reset \notin reg'[RstB]
        /\ {26, 27} \subseteq reg'[sts2] /\ 22 \in reg'[sts3] /\ 21 \notin reg'[sts3]
    BY <1>5, <1>7, <1>8, <1>10, <1>12, <2>1
  <2> QED
    BY <2>2 DEF PhyUp, sts2, sts3, w
<1> QED
  BY <1>11, <1>12

(* Connect and Disconnect write the port's control register only, and keep    *)
(* the core running.                                                          *)
LEMMA VhubSwitches ==
  ASSUME Types, NEW p \in Ports, bootPc["vhub"] # 0, bootCall["vhub"] \in {C("Connect", p), C("Disconnect", p)},
         Protect("vhub") \/ Read32("vhub") \/ Write32("vhub") \/ HCReset("vhub"),
         NEW n, n = bootPc["vhub"], NEW o, o = Op("vhub"), NEW ctrl, ctrl = At("ctrl", p)
  PROVE  /\ n \in {1, 2} /\ Len(ProgramOf("vhub", bootCall["vhub"])) = 2
         /\ n = 1 => o.op = "load" /\ o.r = ctrl /\ reg' = reg
         /\ \A x \in Registers : x # ctrl => reg'[x] = reg[x]
         /\ n = 2 /\ {31, 11} \subseteq tmp["vhub"] /\ {31, 11} \subseteq reg[ctrl] => {31, 11} \subseteq reg'[ctrl]
<1> DEFINE P == ProgramOf("vhub", bootCall["vhub"])
<1>1. "vhub" \in Packages /\ n # 0
  BY DEF Packages
<1>2. n \in 1 .. Len(P) /\ o = P[n]
  BY <1>1, OpFits
<1>3. \E a, b : /\ Len(P) = 2 /\ P[1] = Load(ctrl) /\ P[2] = Update(ctrl, a, b) /\ {31, 11} \cap a = {}
  <2>1. P = SetBits32(ctrl, {0, 3}) \/ P = ClearBits32(ctrl, {0})
    BY ProgramsOf, Distinct
  <2> HIDE DEF P
  <2>2. CASE P = SetBits32(ctrl, {0, 3})
    BY <2>2, ShortPrograms
  <2>3. CASE P = ClearBits32(ctrl, {0})
    BY <2>3, ShortPrograms
  <2> QED
    BY <2>1, <2>2, <2>3
<1> HIDE DEF P
<1>4. PICK a, b : Len(P) = 2 /\ P[1] = Load(ctrl) /\ P[2] = Update(ctrl, a, b) /\ {31, 11} \cap a = {}
  BY <1>3
<1>5. n \in {1, 2} /\ ctrl \in Registers
  BY <1>2, <1>4, RegistersHas
<1>6. n = 1 => o.op = "load" /\ o.r = ctrl /\ reg' = reg
  <2>1. n = 1 => o.op = "load" /\ o.r = ctrl
    BY <1>2, <1>4, OpFields
  <2> QED
    BY <1>1, <2>1, Effects
<1>7. n = 2 => o.op = "store" /\ o.r = ctrl /\ o.clr = a /\ o.set = b
  BY <1>2, <1>4, OpFields
<1>8. \A x \in Registers : x # ctrl => reg'[x] = reg[x]
  BY <1>1, <1>5, <1>6, <1>7, Effects
<1>9. n = 2 => reg' = reg \/ reg'[ctrl] = (tmp["vhub"] \ a) \cup b
  BY <1>1, <1>5, <1>7, Effects
<1>10. n = 2 /\ {31, 11} \subseteq tmp["vhub"] /\ {31, 11} \subseteq reg[ctrl] => {31, 11} \subseteq reg'[ctrl]
  BY <1>4, <1>9
<1> QED
  BY <1>4, <1>5, <1>6, <1>8, <1>10 DEF P

(* What the vHubs' invariant depends on.                                      *)
LEMMA VhubFrame ==
  ASSUME Types, VhubInv, dead' = dead,
         bootPc'["vhub"] = bootPc["vhub"], bootCall'["vhub"] = bootCall["vhub"], tmp'["vhub"] = tmp["vhub"],
         ok'["vhub"] = ok["vhub"], \A p \in Ports : report'[p] = report[p],
         \A x \in Registers : Owns("vhub", x) => reg'[x] = reg[x],
         \A b \in {0, 3, 6, 7} : b \in reg'[RstB] <=> b \in reg[RstB],
         \A b \in {7, 14} : b \in reg'[Clk0] <=> b \in reg[Clk0]
  PROVE  VhubInv'
<1>1. reg'[Mux0] = reg[Mux0]
  BY RegistersHas DEF Owns
<1>2. ASSUME NEW p \in Ports
      PROVE  LET t == PortTable[p]
             IN /\ reg'[At("ctrl", p)] = reg[At("ctrl", p)]
                /\ reg'[At("phyctrl", p)] = reg[At("phyctrl", p)]
                /\ reg'[At("swreset", p)] = reg[At("swreset", p)]
                /\ reg'[At("sts2", t.phy)] = reg[At("sts2", t.phy)]
                /\ reg'[At("sts3", t.phy)] = reg[At("sts3", t.phy)]
                /\ t.clock \in reg'[Clk0] <=> t.clock \in reg[Clk0]
                /\ t.reset \in reg'[RstB] <=> t.reset \in reg[RstB]
                /\ PortTable[t.phy].clock \in reg'[Clk0] <=> PortTable[t.phy].clock \in reg[Clk0]
                /\ PortTable[t.phy].reset \in reg'[RstB] <=> PortTable[t.phy].reset \in reg[RstB]
                /\ \A b \in t.phyReset : b \in reg'[RstB] <=> b \in reg[RstB]
  <2> DEFINE t == PortTable[p]
  <2>1. p \in AllPorts /\ t.phy \in AllPorts
    BY BringupAssumption, PortFields DEF AllPorts
  <2>2. \A u \in AllPorts : \A x : Owns("vhub", At(x, u))
    BY Distinct DEF Owns
  <2>3. /\ reg'[At("ctrl", p)] = reg[At("ctrl", p)] /\ reg'[At("phyctrl", p)] = reg[At("phyctrl", p)]
        /\ reg'[At("swreset", p)] = reg[At("swreset", p)] /\ reg'[At("sts2", t.phy)] = reg[At("sts2", t.phy)]
        /\ reg'[At("sts3", t.phy)] = reg[At("sts3", t.phy)]
    BY <2>1, <2>2, RegistersHas
  <2>4. /\ t.clock \in {7, 14} /\ t.reset \in {0, 3, 6, 7} /\ t.phyReset \subseteq {0, 3, 6, 7}
        /\ PortTable[t.phy].clock \in {7, 14} /\ PortTable[t.phy].reset \in {0, 3, 6, 7}
    BY <2>1 DEF PortTable, AllPorts
  <2> HIDE DEF t
  <2> QED
    BY <2>3, <2>4 DEF t
<1>3. ASSUME NEW q \in Ports, PortUp(q) PROVE PortUp(q)'
  BY <1>1, <1>2, <1>3 DEF PortUp
<1>4. ASSUME NEW q \in Ports, PhyUp(PortTable[q].phy) PROVE PhyUp(PortTable[q].phy)'
  BY <1>2, <1>4 DEF PhyUp
<1>5. ASSUME NEW p \in Ports, NEW n, VhubDone(p, n) PROVE VhubDone(p, n)'
  BY <1>1, <1>2, <1>5 DEF VhubDone
<1>6. \A p \in Ports : InitOf(p)' <=> InitOf(p)
  BY DEF InitOf
<1>7. \A q \in Ports : Shares(q)' <=> Shares(q)
  BY <1>6 DEF Shares
<1>8. VhubLoaded'
  BY <1>1, <1>6 DEF VhubInv, VhubLoaded
<1>9. ASSUME NEW p \in Ports, InitOf(p)'
      PROVE  report'[p] = "none" /\ (ok'["vhub"] => VhubDone(p, bootPc["vhub"])')
  <2>1. report[p] = "none" /\ (ok["vhub"] => VhubDone(p, bootPc["vhub"]))
    BY <1>6, <1>9 DEF VhubInv
  <2> DEFINE n == bootPc["vhub"]
  <2>2. (ok["vhub"] => VhubDone(p, n)')
    BY <1>5, <2>1
  <2> QED
    BY <2>1, <2>2
<1> QED
  BY <1>3, <1>4, <1>6, <1>7, <1>8, <1>9 DEF VhubInv

(* At first.                                                                  *)
LEMMA InitVhub == BootInit => VhubInv
<1> SUFFICES ASSUME BootInit PROVE VhubInv
  OBVIOUS
<1>1. bootPc["vhub"] = 0 /\ \A p \in Ports : report[p] = "none"
  BY DEF BootInit, Packages
<1> QED
  BY <1>1 DEF VhubInv, VhubLoaded, InitOf

(* A call begins.                                                             *)
LEMMA VhubBegin ==
  ASSUME Types, VhubInv, NEW k \in Packages, NEW c \in Calls(k), BeginCall(k, c)
  PROVE  VhubInv'
<1>1. /\ bootPc[k] = 0 /\ bootPc' = [bootPc EXCEPT ![k] = 1] /\ bootCall' = [bootCall EXCEPT ![k] = c]
      /\ ok' = [ok EXCEPT ![k] = TRUE]
      /\ report' = IF c.op = "InitSteps" THEN [report EXCEPT ![c.arg] = "none"] ELSE report
      /\ reg' = reg /\ dead' = dead /\ tmp' = tmp
  BY Begins, Zenon
<1>2. /\ bootPc \in [Packages -> Nat] /\ DOMAIN bootCall = Packages /\ DOMAIN ok = Packages
      /\ DOMAIN report = Ports \cup {"ehci"} /\ "vhub" \in Packages
  BY DEF Types, Packages
<1>3. \A p \in Ports : p # "ehci"
  BY BringupAssumption
<1>4. CASE k # "vhub"
  <2>1. /\ bootPc'["vhub"] = bootPc["vhub"] /\ bootCall'["vhub"] = bootCall["vhub"] /\ ok'["vhub"] = ok["vhub"]
    BY <1>1, <1>2, <1>4, Zenon
  <2>2. c.op = "InitSteps" => c.arg = "ehci"
    BY <1>4, CallsOf, Fields DEF Packages
  <2>3. \A p \in Ports : report'[p] = report[p]
    BY <1>1, <1>2, <1>3, <2>2
  <2> QED
    BY <1>1, <2>1, <2>3, VhubFrame
<1>5. CASE k = "vhub"
  <2>1. PICK p \in Ports : c = C("InitSteps", p) \/ c = C("Connect", p) \/ c = C("Disconnect", p)
    BY <1>5, CallsOf
  <2>2. bootPc["vhub"] = 0 /\ bootPc'["vhub"] = 1 /\ bootCall'["vhub"] = c
    BY <1>1, <1>2, <1>5
  <2>3. \A q \in Ports : InitOf(q)' => c = C("InitSteps", q) /\ q = p /\ report'[q] = "none"
    <3>1. ASSUME NEW q \in Ports, InitOf(q)' PROVE c = C("InitSteps", q) /\ q = p /\ c.op = "InitSteps" /\ c.arg = p
      BY <2>1, <2>2, <3>1, Fields DEF InitOf
    <3> QED
      BY <1>1, <1>2, <3>1
  <2>4. \A q \in Ports : VhubDone(q, 1)'
    BY DEF VhubDone
  <2>5. ASSUME NEW q \in Ports, report'[q] = "ok"
        PROVE  /\ PortUp(q)' /\ PhyUp(PortTable[q].phy)'
    <3>1. report[q] = "ok"
      BY <1>1, <1>2, <2>5
    <3>2. ~Shares(q)
      BY <2>2 DEF Shares, InitOf
    <3>3. PortUp(q) /\ PhyUp(PortTable[q].phy)
      BY <3>1, <3>2 DEF VhubInv
    <3> QED
      BY <1>1, <3>3 DEF PortUp, PhyUp
  <2>6. VhubLoaded'
    BY <2>2 DEF VhubLoaded
  <2> QED
    BY <2>2, <2>3, <2>4, <2>5, <2>6 DEF VhubInv
<1> QED
  BY <1>4, <1>5

(* Another package's access.                                                  *)
LEMMA VhubOther ==
  ASSUME Types, VhubInv, NEW k \in Packages, k # "vhub",
         Protect(k) \/ Read32(k) \/ Write32(k) \/ HCReset(k)
  PROVE  VhubInv'
<1>1. "vhub" \in Packages
  BY DEF Packages
<1>2. /\ bootPc[k] # 0 /\ dead' = dead
      /\ bootPc'["vhub"] = bootPc["vhub"] /\ bootCall'["vhub"] = bootCall["vhub"] /\ tmp'["vhub"] = tmp["vhub"]
      /\ ok'["vhub"] = ok["vhub"]
      /\ \E good \in BOOLEAN : report' = report \/ report' = Reported(k, good)
  BY <1>1, Accesses, Zenon
<1>3. \A p \in Ports : report'[p] = report[p]
  <2>1. DOMAIN report = Ports \cup {"ehci"} /\ \A p \in Ports : p # "ehci"
    BY BringupAssumption DEF Types
  <2>2. bootCall[k].op = "InitSteps" => bootCall[k].arg = "ehci"
    <3>1. bootCall[k] \in Calls(k)
      BY <1>2, OpFits
    <3> QED
      BY <3>1, CallsOf, Fields DEF Packages
  <2> QED
    BY <1>2, <2>1, <2>2 DEF Reported
<1>4. \A x \in Registers : Owns("vhub", x) => reg'[x] = reg[x]
  BY <1>1, OthersKeep
<1>5. /\ \A b \in {0, 3, 6, 7} : b \in reg'[RstB] <=> b \in reg[RstB]
      /\ \A b \in {7, 14} : b \in reg'[Clk0] <=> b \in reg[Clk0]
  BY SharedKeep
<1> QED
  BY <1>2, <1>3, <1>4, <1>5, VhubFrame

(* Its own, in an InitSteps.                                                  *)
LEMMA VhubInits ==
  ASSUME Types, VhubInv, NEW p \in Ports, InitOf(p),
         Protect("vhub") \/ Read32("vhub") \/ Write32("vhub") \/ HCReset("vhub")
  PROVE  VhubInv'
<1> PICK n : n = bootPc["vhub"]
  OBVIOUS
<1> PICK o : o = Op("vhub")
  OBVIOUS
<1> DEFINE N == Len(ProgramOf("vhub", bootCall["vhub"]))
           t == PortTable[p]
<1>1. "vhub" \in Packages
  BY DEF Packages
<1>2. dead' = dead
  BY <1>1, Accesses, Zenon
<1>3. PICK good \in BOOLEAN : \E v :
        /\ good => ok["vhub"]
        /\ good /\ o.op \notin {"unlock", "lock", "load"} => OK(o, Reading(o.r, reg'))
        /\ o.op = "load" => v = Reading(o.r, reg)
        /\ \/ /\ n # N /\ bootPc'["vhub"] = n + 1 /\ bootCall'["vhub"] = bootCall["vhub"]
              /\ tmp'["vhub"] = v /\ ok'["vhub"] = good /\ report' = report
           \/ n = N /\ bootPc'["vhub"] = 0 /\ report' = Reported("vhub", good)
  BY <1>1, Accesses, Zenon
<1>4. PICK v :
        /\ good => ok["vhub"]
        /\ good /\ o.op \notin {"unlock", "lock", "load"} => OK(o, Reading(o.r, reg'))
        /\ o.op = "load" => v = Reading(o.r, reg)
        /\ \/ /\ n # N /\ bootPc'["vhub"] = n + 1 /\ bootCall'["vhub"] = bootCall["vhub"]
              /\ tmp'["vhub"] = v /\ ok'["vhub"] = good /\ report' = report
           \/ n = N /\ bootPc'["vhub"] = 0 /\ report' = Reported("vhub", good)
  BY <1>3, Zenon
<1>5. /\ n \in 1 .. 21 /\ n <= N /\ (n \in {20, 21} => t.quirk)
      /\ (N = 21 /\ t.quirk) \/ (N = 19 /\ ~t.quirk)
      /\ o = VhubInitSteps(p)[n] /\ p \in AllPorts /\ t.phy \in AllPorts
  BY VhubNow
<1>6. bootCall["vhub"] = C("InitSteps", p) /\ bootCall["vhub"].op = "InitSteps" /\ bootCall["vhub"].arg = p
  BY Fields DEF InitOf
<1>7. \A q \in Ports : InitOf(q) <=> q = p
  BY <1>5, <1>6, Fields DEF InitOf
<1>8. report[p] = "none" /\ (ok["vhub"] => VhubDone(p, n)) /\ (n = 3 => tmp["vhub"] = reg[Mux0])
  BY DEF VhubInv, VhubLoaded
<1> HIDE DEF N
<1>9. good => VhubDone(p, n + 1)'
  <2>1. o.op \notin {"unlock", "lock", "load"} => (good => OK(o, Reading(o.r, reg')))
    BY <1>4, Zenon
  <2>2. n = 20 => tmp'["vhub"] = Reading(o.r, reg)
    <3>1. n = 20 => o.op = "load"
      BY <1>5, VhubOps
    <3>2. n = 20 => n # N
      BY <1>5
    <3> QED
      BY <1>4, <3>1, <3>2, Zenon
  <2> SUFFICES ASSUME good PROVE VhubDone(p, n + 1)'
    OBVIOUS
  <2>3. VhubDone(p, n) /\ (o.op \notin {"unlock", "lock", "load"} => OK(o, Reading(o.r, reg')))
    BY <1>4, <1>8, <2>1, Zenon
  <2> QED
    BY <1>2, <2>2, <2>3, VhubAdvances, Zenon
<1>10. \A q \in Ports :
         /\ q # p /\ PortUp(q) => PortUp(q)'
         /\ PortTable[q].phy # t.phy /\ PhyUp(PortTable[q].phy) => PhyUp(PortTable[q].phy)'
  BY <1>2, <1>8, VhubKeeps
<1>11. \A q \in Ports : Shares(q) <=> PortTable[q].phy = t.phy
  BY <1>7 DEF Shares
<1>12. ASSUME NEW q \in Ports, report[q] = "ok"
       PROVE  q # p /\ PortUp(q)' /\ (PortTable[q].phy # t.phy => PhyUp(PortTable[q].phy)')
  BY <1>8, <1>10, <1>11, <1>12 DEF VhubInv
<1>13. CASE n # N
  <2>1. /\ bootPc'["vhub"] = n + 1 /\ bootCall'["vhub"] = bootCall["vhub"] /\ tmp'["vhub"] = v /\ ok'["vhub"] = good
        /\ report' = report
    BY <1>4, <1>13
  <2>2. \A q \in Ports : InitOf(q)' => q = p
    BY <1>6, <2>1, Fields DEF InitOf
  <2>3. InitOf(p)'
    BY <1>5, <1>6, <2>1 DEF InitOf
  <2>4. \A q \in Ports : Shares(q)' <=> PortTable[q].phy = t.phy
    BY <2>2, <2>3 DEF Shares
  <2>5. VhubLoaded'
    <3>1. n = 2 => v = reg'[Mux0]
      <4>1. n = 2 => o.op = "load" /\ o.r = Mux0
        BY <1>5, VhubOps
      <4>2. n = 2 => v = Reading(Mux0, reg)
        BY <1>4, <4>1
      <4>3. Reading(Mux0, reg) = reg[Mux0]
        BY Distinct, Lives DEF Reading
      <4>4. o.op = "load" => reg' = reg
        BY <1>1, Effects
      <4> QED
        BY <4>1, <4>2, <4>3, <4>4
    <3>2. \A q : bootCall'["vhub"] \notin {C("Connect", q), C("Disconnect", q)}
      BY <1>6, <2>1, Fields
    <3> QED
      BY <1>5, <2>1, <3>1, <3>2 DEF VhubLoaded
  <2>6. ok'["vhub"] => VhubDone(p, bootPc["vhub"])'
    <3> PICK m : m = n + 1
      OBVIOUS
    <3>1. ok'["vhub"] => VhubDone(p, m)'
      BY <1>9, <2>1, Zenon
    <3>2. bootPc'["vhub"] = m
      BY <2>1
    <3> QED
      BY <3>1, <3>2, Zenon
  <2> QED
    BY <1>8, <1>12, <2>1, <2>2, <2>4, <2>5, <2>6 DEF VhubInv
<1>14. CASE n = N
  <2>1. bootPc'["vhub"] = 0 /\ report' = Reported("vhub", good)
    BY <1>4, <1>14
  <2>2. DOMAIN report = Ports \cup {"ehci"} /\ \A q \in Ports : q # "ehci"
    BY BringupAssumption DEF Types
  <2>3. ASSUME NEW q \in Ports, report'[q] = "ok"
        PROVE  (q = p /\ good) \/ (q # p /\ report[q] = "ok" /\ (good \/ PortTable[q].phy # t.phy))
    BY <1>6, <2>1, <2>2, <2>3 DEF Reported
  <2>4. good => PortUp(p)' /\ PhyUp(t.phy)'
    <3> SUFFICES ASSUME good PROVE PortUp(p)' /\ PhyUp(t.phy)'
      OBVIOUS
    <3>1. /\ reg'[Mux0] \cap t.mask = t.bits /\ t.clock \notin reg'[Clk0]
          /\ ({t.reset} \cup t.phyReset) \cap reg'[RstB] = {}
          /\ t.phy \notin dead' /\ {26, 27} \subseteq reg'[At("sts2", t.phy)]
          /\ 22 \in reg'[At("sts3", t.phy)] /\ 21 \notin reg'[At("sts3", t.phy)]
          /\ p \notin dead' /\ 4 \in reg'[At("phyctrl", p)]
          /\ {31, 11} \subseteq reg'[At("ctrl", p)] /\ reg'[At("swreset", p)] = {}
          /\ t.quirk => 13 \in reg'[At("phyctrl", p)]
      <4>1. n + 1 > 19 /\ (t.quirk => n + 1 > 21)
        BY <1>5, <1>14
      <4> PICK m : m = n + 1
        OBVIOUS
      <4>2. m > 19 /\ (t.quirk => m > 21) /\ m \in Int
        BY <1>5, <4>1
      <4>3. VhubDone(p, m)'
        BY <1>9, Zenon
      <4> QED
        BY <4>2, <4>3 DEF VhubDone
    <3>2. PortTable[t.phy].clock = t.clock /\ PortTable[t.phy].reset \in {t.reset} \cup t.phyReset
      BY <1>5 DEF PortTable, AllPorts
    <3> HIDE DEF t
    <3>3. PhyUp(t.phy)'
      BY <3>1, <3>2 DEF PhyUp
    <3>4. PortUp(p)'
      BY <3>1 DEF PortUp, t
    <3> QED
      BY <3>3, <3>4
  <2>5. ASSUME NEW q \in Ports, report'[q] = "ok" PROVE PortUp(q)' /\ PhyUp(PortTable[q].phy)'
    BY <1>12, <2>3, <2>4, <2>5
  <2>6. \A q \in Ports : ~InitOf(q)'
    BY <2>1 DEF InitOf
  <2>7. VhubLoaded'
    BY <2>1 DEF VhubLoaded
  <2> QED
    BY <2>5, <2>6, <2>7 DEF VhubInv
<1> QED
  BY <1>13, <1>14

(* Its own, in a Connect or a Disconnect.                                     *)
LEMMA VhubSwitch ==
  ASSUME Types, VhubInv, NEW p \in Ports, bootPc["vhub"] # 0,
         bootCall["vhub"] \in {C("Connect", p), C("Disconnect", p)},
         Protect("vhub") \/ Read32("vhub") \/ Write32("vhub") \/ HCReset("vhub")
  PROVE  VhubInv'
<1> DEFINE n == bootPc["vhub"]
           o == Op("vhub")
           N == Len(ProgramOf("vhub", bootCall["vhub"]))
           ctrl == At("ctrl", p)
<1>1. "vhub" \in Packages
  BY DEF Packages
<1>2. dead' = dead
  BY <1>1, Accesses, Zenon
<1>3. PICK v :
        /\ o.op = "load" => v = Reading(o.r, reg)
        /\ \/ /\ n # N /\ bootPc'["vhub"] = n + 1 /\ bootCall'["vhub"] = bootCall["vhub"]
              /\ tmp'["vhub"] = v /\ report' = report
           \/ n = N /\ bootPc'["vhub"] = 0 /\ \E good \in BOOLEAN : report' = Reported("vhub", good)
  BY <1>1, Accesses, Zenon
<1>4. /\ n \in {1, 2} /\ N = 2
      /\ n = 1 => o.op = "load" /\ o.r = ctrl /\ reg' = reg
      /\ \A x \in Registers : x # ctrl => reg'[x] = reg[x]
      /\ n = 2 /\ {31, 11} \subseteq tmp["vhub"] /\ {31, 11} \subseteq reg[ctrl] => {31, 11} \subseteq reg'[ctrl]
  BY VhubSwitches
<1>5. bootCall["vhub"].op # "InitSteps" /\ \A q : bootCall["vhub"] # C("InitSteps", q)
  BY Fields
<1>6. report' = report
  BY <1>3, <1>5 DEF Reported
<1>7. \A q \in Ports : ~InitOf(q) /\ ~InitOf(q)'
  <2>1. bootPc'["vhub"] = 0 \/ bootCall'["vhub"] = bootCall["vhub"]
    BY <1>3
  <2> QED
    BY <1>5, <2>1 DEF InitOf
<1>8. \A q \in Ports : report[q] = "ok" => PortUp(q) /\ PhyUp(PortTable[q].phy)
  BY <1>7 DEF VhubInv, Shares
<1>9. n = 2 /\ report[p] = "ok" => {31, 11} \subseteq tmp["vhub"]
  BY DEF VhubInv, VhubLoaded
<1> HIDE DEF n, o, N
<1>10. ASSUME NEW q \in Ports, report[q] = "ok" PROVE PortUp(q)' /\ PhyUp(PortTable[q].phy)'
  <2> DEFINE t == PortTable[q]
  <2>1. /\ {Mux0, Clk0, RstB, At("sts2", t.phy), At("sts3", t.phy), At("phyctrl", q), At("swreset", q)} \subseteq Registers
        /\ ctrl \notin {Mux0, Clk0, RstB, At("sts2", t.phy), At("sts3", t.phy), At("phyctrl", q), At("swreset", q)}
        /\ At("ctrl", q) \in Registers
    BY RegistersHas, Distinct
  <2>2. {31, 11} \subseteq reg[At("ctrl", q)]
    BY <1>8, <1>10 DEF PortUp
  <2>3. {31, 11} \subseteq reg'[At("ctrl", q)]
    <3>1. CASE At("ctrl", q) # ctrl
      BY <1>4, <2>1, <2>2, <3>1
    <3>2. CASE At("ctrl", q) = ctrl
      <4>1. q = p
        BY <3>2, Distinct
      <4> QED
        BY <1>4, <1>9, <1>10, <2>2, <4>1
    <3> QED
      BY <3>1, <3>2
  <2>4. \A x \in {Mux0, Clk0, RstB, At("sts2", t.phy), At("sts3", t.phy), At("phyctrl", q), At("swreset", q)} :
          reg'[x] = reg[x]
    BY <1>4, <2>1
  <2>5. PortUp(q) /\ PhyUp(t.phy)
    BY <1>8, <1>10
  <2>6. PortUp(q)'
    BY <1>2, <2>3, <2>4, <2>5 DEF PortUp
  <2>7. PhyUp(t.phy)'
    BY <1>2, <2>4, <2>5 DEF PhyUp
  <2> QED
    BY <2>6, <2>7
<1>11. VhubLoaded'
  <2>1. ASSUME NEW q \in Ports, bootPc'["vhub"] = 2, bootCall'["vhub"] \in {C("Connect", q), C("Disconnect", q)},
               report[q] = "ok"
        PROVE  {31, 11} \subseteq tmp'["vhub"]
    <3>1. n = 1 /\ bootCall'["vhub"] = bootCall["vhub"] /\ tmp'["vhub"] = v /\ v = Reading(ctrl, reg)
      BY <1>3, <1>4, <2>1
    <3>2. q = p
      BY <2>1, <3>1, Fields
    <3>3. PortUp(p) /\ PhyUp(PortTable[p].phy) /\ p \in AllPorts
      BY <1>8, <2>1, <3>2, BringupAssumption DEF AllPorts
    <3>4. PortTable[p].phyReset \subseteq {PortTable[PortTable[p].phy].reset}
      BY <3>3 DEF PortTable, AllPorts
    <3>5. Live(p, reg)
      BY <3>3, <3>4, Lives DEF PortUp, PhyUp
    <3>6. ctrl[2] = p
      BY Distinct
    <3> QED
      BY <3>1, <3>3, <3>5, <3>6 DEF Reading, PortUp
  <2> QED
    BY <1>6, <1>7, <2>1 DEF VhubLoaded
<1> QED
  BY <1>6, <1>7, <1>10, <1>11 DEF VhubInv

(* Every step.                                                                *)
LEMMA NextVhub == Types /\ VhubInv /\ [BootNext]_bootVars => VhubInv'
<1> SUFFICES ASSUME Types, VhubInv, [BootNext]_bootVars PROVE VhubInv'
  OBVIOUS
<1>1. CASE UNCHANGED bootVars
  BY <1>1, VhubFrame DEF bootVars
<1>2. ASSUME NEW k \in Packages, NEW c \in Calls(k), BeginCall(k, c) PROVE VhubInv'
  BY <1>2, VhubBegin
<1>3. ASSUME NEW k \in Packages, Protect(k) \/ Read32(k) \/ Write32(k) \/ HCReset(k)
      PROVE  VhubInv'
  <2>1. CASE k # "vhub"
    BY <1>3, <2>1, VhubOther
  <2>2. CASE k = "vhub"
    <3>1. bootPc["vhub"] # 0
      BY <1>3, <2>2 DEF Protect, Read32, Write32, HCReset
    <3>2. bootCall["vhub"] \in Calls("vhub")
      BY <2>2, <3>1, OpFits
    <3>3. PICK p \in Ports : bootCall["vhub"] \in {C("InitSteps", p), C("Connect", p), C("Disconnect", p)}
      BY <3>2, CallsOf
    <3>4. CASE bootCall["vhub"] = C("InitSteps", p)
      BY <1>3, <2>2, <3>1, <3>4, VhubInits DEF InitOf
    <3>5. CASE bootCall["vhub"] \in {C("Connect", p), C("Disconnect", p)}
      BY <1>3, <2>2, <3>1, <3>5, VhubSwitch
    <3> QED
      BY <3>3, <3>4, <3>5
  <2> QED
    BY <2>1, <2>2
<1> QED
  BY <1>1, <1>2, <1>3 DEF BootNext

-----------------------------------------------------------------------------
(* The EHCI's bring-up.                                                       *)

(* The n-th access of its InitSteps: what it accesses and what it wants.      *)
LEMMA EhciOps ==
  LET P == EhciInitSteps
      ctrl == At("ctrl", "D")  pctl == At("phyctrl", "D")
      sts2 == At("sts2", "D")  sts3 == At("sts3", "D")
      cmd == At("cmd", "ehci")  flag == At("flag", "ehci")  portsc == At("portsc", "ehci")
  IN /\ P[1].op \in {"unlock", "lock"} /\ P[7].op \in {"unlock", "lock"}
     /\ P[2].op = "load" /\ P[2].r = Mux1
     /\ P[8].op = "load" /\ P[10].op = "load" /\ P[12].op = "load" /\ P[14].op = "load"
     /\ P[16].op = "load" /\ P[20].op = "load"
     /\ P[22].op = "load" /\ P[22].r = cmd
     /\ P[3].op = "store" /\ P[3].r = Mux1 /\ P[3].clr = {2, 3} /\ P[3].set = {3}
     /\ P[3].wantSet = {3} /\ P[3].wantClr = {2, 3} \ {3}
     /\ P[4].op = "assert" /\ P[4].r = RstD
     /\ P[5].op = "clear" /\ P[5].r = Clk2 /\ P[5].wantClr = {18}
     /\ P[6].op = "clear" /\ P[6].r = RstD /\ P[6].wantClr = {29}
     /\ P[9].op = "store" /\ P[9].r = sts2 /\ P[9].wantSet = {26, 27}
     /\ P[11].op = "store" /\ P[11].r = sts3 /\ P[11].wantSet = {22}
     /\ P[11].wantClr = {21, 22} \ {22}
     /\ P[13].op = "store" /\ P[13].r = pctl /\ P[13].wantSet = {10, 5}
     /\ P[15].op = "store" /\ P[15].r = ctrl /\ P[15].wantSet = {31, 11}
     /\ P[17].op = "store" /\ P[17].r = cmd /\ P[17].clr = {} /\ P[17].set = {1}
     /\ P[18].op = "hcreset" /\ P[18].r = cmd /\ P[18].wantClr = {1}
     /\ P[19].op = "put" /\ P[19].r = flag /\ P[19].set = {0} /\ P[19].wantSet = {0}
     /\ P[21].op = "store" /\ P[21].r = portsc /\ P[21].wantSet = {12}
     /\ P[23].op = "store" /\ P[23].r = cmd /\ P[23].clr = {} /\ P[23].set = {0}
<1> DEFINE P == EhciInitSteps
           ctrl == At("ctrl", "D")
           pctl == At("phyctrl", "D")
           sts2 == At("sts2", "D")
           sts3 == At("sts3", "D")
           cmd == At("cmd", "ehci")
           flag == At("flag", "ehci")
           portsc == At("portsc", "ehci")
<1>1. P[1].op \in {"unlock", "lock"} /\ P[7].op \in {"unlock", "lock"}
  <2>1. P[1] = Unlock("scu1") /\ P[7] = Lock("scu1")
    BY EhciProgram
  <2> HIDE DEF P
  <2> QED
    BY <2>1, KeyFields
<1>2. /\ P[2].op = "load" /\ P[2].r = Mux1
      /\ P[8].op = "load" /\ P[10].op = "load" /\ P[12].op = "load" /\ P[14].op = "load"
      /\ P[16].op = "load" /\ P[20].op = "load"
      /\ P[22].op = "load" /\ P[22].r = cmd
  <2>1. /\ P[2] = Load(Mux1) /\ P[8] = Load(sts2) /\ P[10] = Load(sts3) /\ P[12] = Load(pctl)
        /\ P[14] = Load(ctrl) /\ P[16] = Load(cmd) /\ P[20] = Load(portsc) /\ P[22] = Load(cmd)
    BY EhciProgram
  <2> HIDE DEF P, ctrl, pctl, sts2, sts3, cmd, flag, portsc
  <2> QED
    BY <2>1, OpFields
<1>3. /\ P[3].op = "store" /\ P[3].r = Mux1 /\ P[3].clr = {2, 3} /\ P[3].set = {3}
      /\ P[3].wantSet = {3} /\ P[3].wantClr = {2, 3} \ {3}
  <2>1. P[3] = Want(Update(Mux1, {2, 3}, {3}), {3}, {2, 3} \ {3})
    BY EhciProgram
  <2> HIDE DEF P, ctrl, pctl, sts2, sts3, cmd, flag, portsc
  <2> QED
    BY <2>1, WantFields
<1>4. P[4].op = "assert" /\ P[4].r = RstD
  <2>1. P[4] = Want(Raise(RstD, {29}), {29}, {})
    BY EhciProgram
  <2> HIDE DEF P, ctrl, pctl, sts2, sts3, cmd, flag, portsc
  <2> QED
    BY <2>1, WantFields
<1>5. P[5].op = "clear" /\ P[5].r = Clk2 /\ P[5].wantClr = {18}
  <2>1. P[5] = Want(Clear(Clk2, {18}), {}, {18})
    BY EhciProgram
  <2> HIDE DEF P, ctrl, pctl, sts2, sts3, cmd, flag, portsc
  <2> QED
    BY <2>1, WantFields
<1>6. P[6].op = "clear" /\ P[6].r = RstD /\ P[6].wantClr = {29}
  <2>1. P[6] = Want(Clear(RstD, {29}), {}, {29})
    BY EhciProgram
  <2> HIDE DEF P, ctrl, pctl, sts2, sts3, cmd, flag, portsc
  <2> QED
    BY <2>1, WantFields
<1>7. P[9].op = "store" /\ P[9].r = sts2 /\ P[9].wantSet = {26, 27}
  <2>1. P[9] = Want(Update(sts2, {26, 27}, {26, 27}), {26, 27}, {26, 27} \ {26, 27})
    BY EhciProgram
  <2> HIDE DEF P, ctrl, pctl, sts2, sts3, cmd, flag, portsc
  <2> QED
    BY <2>1, WantFields
<1>8. /\ P[11].op = "store" /\ P[11].r = sts3 /\ P[11].wantSet = {22}
      /\ P[11].wantClr = {21, 22} \ {22}
  <2>1. P[11] = Want(Update(sts3, {21, 22}, {22}), {22}, {21, 22} \ {22})
    BY EhciProgram
  <2> HIDE DEF P, ctrl, pctl, sts2, sts3, cmd, flag, portsc
  <2> QED
    BY <2>1, WantFields
<1>9. P[13].op = "store" /\ P[13].r = pctl /\ P[13].wantSet = {10, 5}
  <2>1. P[13] = Want(Update(pctl, {}, {10, 5}), {10, 5}, {} \ {10, 5})
    BY EhciProgram
  <2> HIDE DEF P, ctrl, pctl, sts2, sts3, cmd, flag, portsc
  <2> QED
    BY <2>1, WantFields
<1>10. P[15].op = "store" /\ P[15].r = ctrl /\ P[15].wantSet = {31, 11}
  <2>1. P[15] = Want(Update(ctrl, {}, {31, 11}), {31, 11}, {} \ {31, 11})
    BY EhciProgram
  <2> HIDE DEF P, ctrl, pctl, sts2, sts3, cmd, flag, portsc
  <2> QED
    BY <2>1, WantFields
<1>11. P[17].op = "store" /\ P[17].r = cmd /\ P[17].clr = {} /\ P[17].set = {1}
  <2>1. P[17] = Update(cmd, {}, {1})
    BY EhciProgram
  <2> HIDE DEF P, ctrl, pctl, sts2, sts3, cmd, flag, portsc
  <2> QED
    BY <2>1, OpFields
<1>12. P[18].op = "hcreset" /\ P[18].r = cmd /\ P[18].wantClr = {1}
  <2>1. P[18] = Want(O("hcreset", cmd, {}, {}), {}, {1})
    BY EhciProgram
  <2> HIDE DEF P, ctrl, pctl, sts2, sts3, cmd, flag, portsc
  <2> QED
    BY <2>1, WantFields
<1>13. P[19].op = "put" /\ P[19].r = flag /\ P[19].set = {0} /\ P[19].wantSet = {0}
  <2>1. P[19] = Want(Put(flag, {0}), {0}, {})
    BY EhciProgram
  <2> HIDE DEF P, ctrl, pctl, sts2, sts3, cmd, flag, portsc
  <2> QED
    BY <2>1, WantFields
<1>14. P[21].op = "store" /\ P[21].r = portsc /\ P[21].wantSet = {12}
  <2>1. P[21] = Want(Update(portsc, {}, {12}), {12}, {} \ {12})
    BY EhciProgram
  <2> HIDE DEF P, ctrl, pctl, sts2, sts3, cmd, flag, portsc
  <2> QED
    BY <2>1, WantFields
<1>15. P[23].op = "store" /\ P[23].r = cmd /\ P[23].clr = {} /\ P[23].set = {0}
  <2>1. P[23] = Want(Update(cmd, {}, {0}), {0}, {} \ {0})
    BY EhciProgram
  <2> HIDE DEF P, ctrl, pctl, sts2, sts3, cmd, flag, portsc
  <2> QED
    BY <2>1, WantFields
<1> QED
  BY <1>1, <1>2, <1>3, <1>4, <1>5, <1>6, <1>7, <1>8, <1>9, <1>10, <1>11, <1>12, <1>13, <1>14, <1>15

(* The access that the EHCI's bring-up is at.                                 *)
LEMMA EhciNow ==
  ASSUME Types, bootPc["ehci"] # 0
  PROVE  /\ bootPc["ehci"] \in 1 .. 23 /\ Len(ProgramOf("ehci", bootCall["ehci"])) = 23
         /\ Op("ehci") = EhciInitSteps[bootPc["ehci"]]
         /\ bootCall["ehci"].op = "InitSteps" /\ bootCall["ehci"].arg = "ehci"
<1> DEFINE P == ProgramOf("ehci", bootCall["ehci"])
           n == bootPc["ehci"]
<1>1. "ehci" \in Packages
  BY DEF Packages
<1>2. bootCall["ehci"] \in Calls("ehci") /\ n \in 1 .. Len(P) /\ Op("ehci") = P[n]
  BY <1>1, OpFits
<1>3. bootCall["ehci"] = C("InitSteps", "ehci")
  BY <1>2, CallsOf
<1>4. P = EhciInitSteps
  BY <1>3, ProgramsOf
<1>5. Len(EhciInitSteps) = 23
  BY EhciProgram
<1> HIDE DEF P, n
<1>6. Len(P) = 23 /\ n \in 1 .. 23 /\ Op("ehci") = EhciInitSteps[n]
  BY <1>2, <1>4, <1>5
<1> QED
  BY <1>3, <1>6, Fields DEF P, n

(* Which register it writes, and which its reset clears.                      *)
LEMMA EhciTouches ==
  ASSUME Types, bootPc["ehci"] # 0, NEW n, n = bootPc["ehci"],
         Protect("ehci") \/ Read32("ehci") \/ Write32("ehci") \/ HCReset("ehci"),
         NEW x \in Registers
  PROVE  \/ reg'[x] = reg[x]
         \/ n = 3 /\ x = Mux1
         \/ n = 4 /\ (x = RstD \/ x[2] \in {"D", "ehci"})
         \/ n = 5 /\ x = Clk2
         \/ n = 6 /\ x = RstD
         \/ n = 9 /\ x = At("sts2", "D")
         \/ n = 11 /\ x = At("sts3", "D")
         \/ n = 13 /\ x = At("phyctrl", "D")
         \/ n = 15 /\ x = At("ctrl", "D")
         \/ n \in {17, 18, 23} /\ x = At("cmd", "ehci")
         \/ n \in {18, 19} /\ x = At("flag", "ehci")
         \/ n = 21 /\ x = At("portsc", "ehci")
<1> DEFINE o == Op("ehci")
           ctrl == At("ctrl", "D")
           pctl == At("phyctrl", "D")
           sts2 == At("sts2", "D")
           sts3 == At("sts3", "D")
           cmd == At("cmd", "ehci")
           flag == At("flag", "ehci")
           portsc == At("portsc", "ehci")
<1>1. n \in 1 .. 23 /\ o = EhciInitSteps[n]
  BY EhciNow
<1>2. /\ n \in {1, 7} => o.op \in {"unlock", "lock"}
      /\ n \in {2, 8, 10, 12, 14, 16, 20, 22} => o.op = "load"
      /\ n = 3 => o.op = "store" /\ o.r = Mux1
      /\ n = 4 => o.op = "assert" /\ o.r = RstD
      /\ n = 5 => o.op = "clear" /\ o.r = Clk2
      /\ n = 6 => o.op = "clear" /\ o.r = RstD
      /\ n = 9 => o.op = "store" /\ o.r = sts2
      /\ n = 11 => o.op = "store" /\ o.r = sts3
      /\ n = 13 => o.op = "store" /\ o.r = pctl
      /\ n = 15 => o.op = "store" /\ o.r = ctrl
      /\ n \in {17, 23} => o.op = "store" /\ o.r = cmd
      /\ n = 18 => o.op = "hcreset" /\ o.r = cmd
      /\ n = 19 => o.op = "put" /\ o.r = flag
      /\ n = 21 => o.op = "store" /\ o.r = portsc
  <2> HIDE DEF o
  <2> QED
    BY <1>1, EhciOps
<1>3. /\ o.op \in {"unlock", "lock", "load"} => reg' = reg
      /\ o.op \in {"put", "store", "clear"} => (x # o.r => reg'[x] = reg[x])
      /\ o.op = "assert" => (x # o.r =>
           reg'[x] = reg[x] \/ (ResetOf(x[2]) # <<>> /\ ResetOf(x[2])[1] = o.r))
      /\ o.op = "hcreset" => (x \notin {o.r, <<"flag", "ehci">>} => reg'[x] = reg[x])
  <2>1. "ehci" \in Packages
    BY DEF Packages
  <2> QED
    BY <2>1, Effects
<1>4. ResetOf(x[2]) # <<>> /\ ResetOf(x[2])[1] = RstD => x[2] \in {"D", "ehci"}
  BY Resets, Distinct
<1>5. flag = <<"flag", "ehci">>
  BY DEF At
<1> HIDE DEF o, ctrl, pctl, sts2, sts3, cmd, flag, portsc
<1>6. CASE n \in {1, 2, 7, 8, 10, 12, 14, 16, 20, 22}
  BY <1>2, <1>3, <1>6
<1>7. CASE n = 4
  BY <1>2, <1>3, <1>4, <1>7
<1>8. CASE n \in {3, 5, 6, 9, 11, 13, 15}
  BY <1>2, <1>3, <1>8 DEF ctrl, pctl, sts2, sts3
<1>9. CASE n \in {17, 19, 21, 23}
  BY <1>2, <1>3, <1>9 DEF cmd, flag, portsc
<1>10. CASE n = 18
  BY <1>2, <1>3, <1>5, <1>10 DEF cmd, flag
<1> QED
  BY <1>1, <1>6, <1>7, <1>8, <1>9, <1>10

(* Its multiplexer holds no other bits.                                       *)
LEMMA EhciMux ==
  ASSUME Types, bootPc["ehci"] # 0, NEW n, n = bootPc["ehci"],
         Protect("ehci") \/ Read32("ehci") \/ Write32("ehci") \/ HCReset("ehci"),
         reg[Mux1] \subseteq {2, 3}, n = 3 => tmp["ehci"] \subseteq {2, 3}
  PROVE  /\ reg'[Mux1] \subseteq {2, 3}
         /\ n = 2 => Op("ehci").op = "load" /\ Reading(Op("ehci").r, reg) \subseteq {2, 3}
<1> PICK o : o = Op("ehci")
  OBVIOUS
<1>1. n \in 1 .. 23 /\ o = EhciInitSteps[n] /\ Mux1 \in Registers /\ "ehci" \in Packages
  BY EhciNow, RegistersHas DEF Packages
<1>2. n # 3 => reg'[Mux1] = reg[Mux1]
  BY <1>1, EhciTouches, Distinct
<1>3. n = 3 => reg'[Mux1] \subseteq {2, 3}
  <2> SUFFICES ASSUME n = 3 PROVE reg'[Mux1] \subseteq {2, 3}
    OBVIOUS
  <2>1. o.op = "store" /\ o.r = Mux1 /\ o.clr = {2, 3} /\ o.set = {3}
    BY <1>1, EhciOps
  <2>2. reg' = reg \/ reg'[Mux1] = (tmp["ehci"] \ {2, 3}) \cup {3}
    BY <1>1, <2>1, Effects
  <2> QED
    BY <2>2
<1>4. n = 2 => o.op = "load" /\ o.r = Mux1
  BY <1>1, EhciOps
<1>5. Reading(Mux1, reg) \subseteq {2, 3}
  BY DEF Reading
<1> QED
  BY <1>2, <1>3, <1>4, <1>5

(* An access that is OK brings it one access further.                         *)
LEMMA EhciAdvances ==
  ASSUME Types, bootPc["ehci"] # 0, NEW n, n = bootPc["ehci"], EhciDone(n),
         Protect("ehci") \/ Read32("ehci") \/ Write32("ehci") \/ HCReset("ehci"),
         dead' = dead, NEW o, o = Op("ehci"), reg'[Mux1] \subseteq {2, 3},
         o.op \notin {"unlock", "lock", "load"} => OK(o, Reading(o.r, reg')),
         n = 22 => tmp'["ehci"] = Reading(o.r, reg)
  PROVE  EhciDone(n + 1)'
<1> DEFINE ctrl == At("ctrl", "D")
           pctl == At("phyctrl", "D")
           sts2 == At("sts2", "D")
           sts3 == At("sts3", "D")
           cmd == At("cmd", "ehci")
           flag == At("flag", "ehci")
           portsc == At("portsc", "ehci")
<1>1. n \in 1 .. 23 /\ o = EhciInitSteps[n] /\ "ehci" \in Packages
  BY EhciNow DEF Packages
<1>2. /\ {Mux1, Clk2, RstD, ctrl, pctl, sts2, sts3, cmd, flag, portsc} \subseteq Registers
      /\ ctrl[2] = "D" /\ pctl[2] = "D" /\ sts2[2] = "D" /\ sts3[2] = "D"
      /\ cmd[2] = "ehci" /\ flag[2] = "ehci" /\ portsc[2] = "ehci"
      /\ Mux1[2] = "scu1" /\ Clk2[2] = "scu1" /\ RstD[2] = "scu1"
  BY RegistersHas, Distinct
<1>3. /\ n # 3 => reg'[Mux1] = reg[Mux1]
      /\ n # 5 => reg'[Clk2] = reg[Clk2]
      /\ n \notin {4, 6} => reg'[RstD] = reg[RstD]
  <2>1. /\ Mux1 \notin {Clk2, RstD, ctrl, pctl, sts2, sts3, cmd, flag, portsc}
        /\ Clk2 \notin {Mux1, RstD, ctrl, pctl, sts2, sts3, cmd, flag, portsc}
        /\ RstD \notin {Mux1, Clk2, ctrl, pctl, sts2, sts3, cmd, flag, portsc}
    BY Distinct
  <2> QED
    BY <1>1, <1>2, <2>1, EhciTouches
<1>4. /\ n \notin {4, 15} => reg'[ctrl] = reg[ctrl]
      /\ n \notin {4, 13} => reg'[pctl] = reg[pctl]
      /\ n \notin {4, 9} => reg'[sts2] = reg[sts2]
      /\ n \notin {4, 11} => reg'[sts3] = reg[sts3]
  <2>1. /\ ctrl \notin {Mux1, Clk2, RstD, pctl, sts2, sts3, cmd, flag, portsc}
        /\ pctl \notin {Mux1, Clk2, RstD, ctrl, sts2, sts3, cmd, flag, portsc}
        /\ sts2 \notin {Mux1, Clk2, RstD, pctl, ctrl, sts3, cmd, flag, portsc}
        /\ sts3 \notin {Mux1, Clk2, RstD, pctl, sts2, ctrl, cmd, flag, portsc}
    BY Distinct
  <2> QED
    BY <1>1, <1>2, <2>1, EhciTouches
<1>5. /\ n \notin {4, 17, 18, 23} => reg'[cmd] = reg[cmd]
      /\ n \notin {4, 18, 19} => reg'[flag] = reg[flag]
      /\ n \notin {4, 21} => reg'[portsc] = reg[portsc]
  <2>1. /\ cmd \notin {Mux1, Clk2, RstD, ctrl, pctl, sts2, sts3, flag, portsc}
        /\ flag \notin {Mux1, Clk2, RstD, ctrl, pctl, sts2, sts3, cmd, portsc}
        /\ portsc \notin {Mux1, Clk2, RstD, ctrl, pctl, sts2, sts3, cmd, flag}
    BY Distinct
  <2> QED
    BY <1>1, <1>2, <2>1, EhciTouches
<1>6. /\ n > 3 => reg[Mux1] = {3}
      /\ n > 5 => 18 \notin reg[Clk2]
      /\ n > 6 => 29 \notin reg[RstD]
      /\ n > 9 => "D" \notin dead /\ {26, 27} \subseteq reg[sts2]
      /\ n > 11 => 22 \in reg[sts3] /\ 21 \notin reg[sts3]
      /\ n > 13 => {10, 5} \subseteq reg[pctl]
      /\ n > 15 => {31, 11} \subseteq reg[ctrl]
      /\ n = 18 /\ "ehci" \notin dead => 1 \in reg[cmd]
      /\ n \in 19 .. 23 /\ "ehci" \notin dead => reg[cmd] = {}
      /\ n > 19 => "ehci" \notin dead /\ reg[flag] = {0}
      /\ n > 21 => 12 \in reg[portsc]
      /\ n = 23 => tmp["ehci"] = {}
  BY DEF EhciDone
<1>7. /\ n = 3 => o.op = "store" /\ o.r = Mux1 /\ o.wantSet = {3} /\ o.wantClr = {2, 3} \ {3}
      /\ n = 5 => o.op = "clear" /\ o.r = Clk2 /\ o.wantClr = {18}
      /\ n = 6 => o.op = "clear" /\ o.r = RstD /\ o.wantClr = {29}
      /\ n = 9 => o.op = "store" /\ o.r = sts2 /\ o.wantSet = {26, 27}
      /\ n = 11 => o.op = "store" /\ o.r = sts3 /\ o.wantSet = {22} /\ o.wantClr = {21, 22} \ {22}
      /\ n = 13 => o.op = "store" /\ o.r = pctl /\ o.wantSet = {10, 5}
      /\ n = 15 => o.op = "store" /\ o.r = ctrl /\ o.wantSet = {31, 11}
  BY <1>1, EhciOps
<1>8. /\ n = 17 => o.op = "store" /\ o.r = cmd /\ o.clr = {} /\ o.set = {1}
      /\ n = 18 => o.op = "hcreset" /\ o.r = cmd /\ o.wantClr = {1}
      /\ n = 19 => o.op = "put" /\ o.r = flag /\ o.set = {0} /\ o.wantSet = {0}
      /\ n = 21 => o.op = "store" /\ o.r = portsc /\ o.wantSet = {12}
      /\ n = 22 => o.r = cmd
      /\ n = 23 => o.op = "store" /\ o.r = cmd /\ o.clr = {} /\ o.set = {0}
  BY <1>1, EhciOps
<1> HIDE DEF ctrl, pctl, sts2, sts3, cmd, flag, portsc
<1>9. Reading(Mux1, reg') = reg'[Mux1] /\ Reading(Clk2, reg') = reg'[Clk2] /\ Reading(RstD, reg') = reg'[RstD]
  BY <1>2, Lives DEF Reading
<1>10. n = 3 => reg'[Mux1] = {3}
  <2> SUFFICES ASSUME n = 3 PROVE reg'[Mux1] = {3}
    OBVIOUS
  <2>1. {3} \subseteq reg'[Mux1] /\ ({2, 3} \ {3}) \cap reg'[Mux1] = {}
    BY <1>7, <1>9 DEF OK
  <2> QED
    BY <2>1
<1>11. (n = 5 => 18 \notin reg'[Clk2]) /\ (n = 6 => 29 \notin reg'[RstD])
  BY <1>7, <1>9 DEF OK
<1>12. n = 9 => "D" \notin dead /\ {26, 27} \subseteq reg'[sts2]
  <2> SUFFICES ASSUME n = 9 PROVE "D" \notin dead /\ {26, 27} \subseteq reg'[sts2]
    OBVIOUS
  <2>1. {26, 27} \subseteq Reading(sts2, reg')
    BY <1>7 DEF OK
  <2> QED
    BY <1>2, <2>1, ReadsBack, Lives
<1>13. n = 11 => 22 \in reg'[sts3] /\ 21 \notin reg'[sts3]
  <2> SUFFICES ASSUME n = 11 PROVE 22 \in reg'[sts3] /\ 21 \notin reg'[sts3]
    OBVIOUS
  <2>1. {22} \subseteq Reading(sts3, reg') /\ 21 \notin Reading(sts3, reg')
    BY <1>7 DEF OK
  <2>2. Reading(sts3, reg') = reg'[sts3]
    BY <2>1, ReadsBack
  <2> QED
    BY <2>1, <2>2
<1>14. n = 13 => {10, 5} \subseteq reg'[pctl]
  <2> SUFFICES ASSUME n = 13 PROVE {10, 5} \subseteq reg'[pctl]
    OBVIOUS
  <2>1. {10, 5} \subseteq Reading(pctl, reg')
    BY <1>7 DEF OK
  <2> QED
    BY <2>1, ReadsBack
<1>15. n = 15 => {31, 11} \subseteq reg'[ctrl]
  <2> SUFFICES ASSUME n = 15 PROVE {31, 11} \subseteq reg'[ctrl]
    OBVIOUS
  <2>1. {31, 11} \subseteq Reading(ctrl, reg')
    BY <1>7 DEF OK
  <2> QED
    BY <2>1, ReadsBack
<1>16. /\ n > 6 /\ "ehci" \notin dead => Live("ehci", reg) /\ Writable(cmd) /\ Writable(flag)
       /\ n > 6 /\ "ehci" \notin dead => Live("ehci", reg')
  <2> SUFFICES ASSUME n > 6, "ehci" \notin dead
               PROVE  Live("ehci", reg) /\ Writable(cmd) /\ Writable(flag) /\ Live("ehci", reg')
    OBVIOUS
  <2>1. /\ 18 \notin reg[Clk2] /\ 29 \notin reg[RstD] /\ 18 \notin reg'[Clk2] /\ 29 \notin reg'[RstD]
    BY <1>1, <1>3, <1>6
  <2>2. Live("ehci", reg) /\ Live("ehci", reg')
    BY <2>1, Lives
  <2> QED
    BY <1>2, <2>2 DEF Writable, SCUs
<1>17. n = 17 /\ "ehci" \notin dead => 1 \in reg'[cmd]
  <2> SUFFICES ASSUME n = 17, "ehci" \notin dead PROVE 1 \in reg'[cmd]
    OBVIOUS
  <2>1. reg'[cmd] = (tmp["ehci"] \ {}) \cup {1}
    BY <1>1, <1>2, <1>8, <1>16, Effects
  <2> QED
    BY <2>1
<1>18. n = 18 /\ "ehci" \notin dead => reg'[cmd] = {}
  <2> SUFFICES ASSUME n = 18, "ehci" \notin dead PROVE reg'[cmd] = {}
    OBVIOUS
  <2>1. 1 \notin Reading(cmd, reg') /\ 1 \in reg[cmd] /\ Live("ehci", reg')
    BY <1>6, <1>8, <1>16 DEF OK
  <2>2. Reading(cmd, reg') = reg'[cmd]
    BY <1>2, <2>1 DEF Reading
  <2>3. reg' = reg \/ \A x \in Registers : reg'[x] = IF x \in {cmd, <<"flag", "ehci">>} THEN {} ELSE reg[x]
    BY <1>1, <1>8, Effects
  <2> QED
    BY <1>2, <2>1, <2>2, <2>3
<1>19. n = 19 => "ehci" \notin dead /\ reg'[flag] = {0}
  <2> SUFFICES ASSUME n = 19 PROVE "ehci" \notin dead /\ reg'[flag] = {0}
    OBVIOUS
  <2>1. {0} \subseteq Reading(flag, reg')
    BY <1>8 DEF OK
  <2>2. Live("ehci", reg')
    BY <1>2, <2>1, ReadsBack
  <2>3. "ehci" \notin dead
    BY <2>2 DEF Live
  <2>4. Writable(flag)
    BY <1>16, <2>3
  <2>5. reg'[flag] = {0}
    BY <1>1, <1>2, <1>8, <2>4, Effects
  <2> QED
    BY <2>3, <2>5
<1>20. n = 21 => 12 \in reg'[portsc]
  <2> SUFFICES ASSUME n = 21 PROVE 12 \in reg'[portsc]
    OBVIOUS
  <2>1. {12} \subseteq Reading(portsc, reg')
    BY <1>8 DEF OK
  <2> QED
    BY <2>1, ReadsBack
<1>21. n = 22 => tmp'["ehci"] = {}
  <2> SUFFICES ASSUME n = 22 PROVE tmp'["ehci"] = {}
    OBVIOUS
  <2>1. reg[cmd] = {}
    BY <1>6
  <2> QED
    BY <1>8, <2>1 DEF Reading
<1>22. n = 23 => reg'[cmd] = {0}
  <2> SUFFICES ASSUME n = 23 PROVE reg'[cmd] = {0}
    OBVIOUS
  <2>1. Writable(cmd) /\ tmp["ehci"] = {}
    BY <1>6, <1>16
  <2>2. reg'[cmd] = (tmp["ehci"] \ {}) \cup {0}
    BY <1>1, <1>2, <1>8, <2>1, Effects
  <2> QED
    BY <2>1, <2>2
<1>23. /\ n + 1 > 3 => reg'[Mux1] = {3}
       /\ n + 1 > 5 => 18 \notin reg'[Clk2]
       /\ n + 1 > 6 => 29 \notin reg'[RstD]
       /\ n + 1 > 9 => "D" \notin dead /\ {26, 27} \subseteq reg'[sts2]
       /\ n + 1 > 11 => 22 \in reg'[sts3] /\ 21 \notin reg'[sts3]
       /\ n + 1 > 13 => {10, 5} \subseteq reg'[pctl]
       /\ n + 1 > 15 => {31, 11} \subseteq reg'[ctrl]
  BY <1>1, <1>3, <1>4, <1>6, <1>10, <1>11, <1>12, <1>13, <1>14, <1>15
<1>24. /\ n + 1 = 18 /\ "ehci" \notin dead => 1 \in reg'[cmd]
       /\ n + 1 \in 19 .. 23 /\ "ehci" \notin dead => reg'[cmd] = {}
       /\ n + 1 > 19 => "ehci" \notin dead /\ reg'[flag] = {0}
       /\ n + 1 > 21 => 12 \in reg'[portsc]
       /\ n + 1 = 23 => tmp'["ehci"] = {}
       /\ n + 1 > 23 => reg'[cmd] = {0}
  BY <1>1, <1>5, <1>6, <1>17, <1>18, <1>19, <1>20, <1>21, <1>22
<1> QED
  BY <1>23, <1>24 DEF EhciDone, ctrl, pctl, sts2, sts3, cmd, flag, portsc

(* What the EHCI's invariant depends on.                                      *)
LEMMA EhciFrame ==
  ASSUME Types, EhciInv, dead' = dead,
         bootPc'["ehci"] = bootPc["ehci"], tmp'["ehci"] = tmp["ehci"], ok'["ehci"] = ok["ehci"],
         report'["ehci"] = report["ehci"],
         \A x \in Registers : Owns("ehci", x) => reg'[x] = reg[x]
  PROVE  EhciInv'
<1>1. /\ reg'[Mux1] = reg[Mux1] /\ reg'[Clk2] = reg[Clk2] /\ reg'[RstD] = reg[RstD]
      /\ \A x \in {"ctrl", "phyctrl", "sts2", "sts3"} : reg'[At(x, "D")] = reg[At(x, "D")]
      /\ \A x \in {"cmd", "flag", "portsc"} : reg'[At(x, "ehci")] = reg[At(x, "ehci")]
  <2>1. \A x : Owns("ehci", At(x, "D")) /\ Owns("ehci", At(x, "ehci"))
    BY Distinct DEF Owns
  <2>2. Owns("ehci", Mux1) /\ Owns("ehci", Clk2) /\ Owns("ehci", RstD)
    BY DEF Owns
  <2> QED
    BY <2>1, <2>2, RegistersHas
<1>2. ASSUME NEW n, EhciDone(n) PROVE EhciDone(n)'
  BY <1>1, <1>2 DEF EhciDone
<1>3. reg'[Mux1] \subseteq {2, 3} /\ (bootPc'["ehci"] = 3 => tmp'["ehci"] \subseteq {2, 3})
  BY <1>1 DEF EhciInv
<1>4. bootPc'["ehci"] # 0 => report'["ehci"] = "none" /\ (ok'["ehci"] => EhciDone(bootPc["ehci"])')
  <2> PICK n : n = bootPc["ehci"]
    OBVIOUS
  <2>1. n # 0 => report["ehci"] = "none" /\ (ok["ehci"] => EhciDone(n))
    BY DEF EhciInv
  <2>2. n # 0 => report["ehci"] = "none" /\ (ok["ehci"] => EhciDone(n)')
    BY <1>2, <2>1
  <2>3. bootPc'["ehci"] = n
    OBVIOUS
  <2> QED
    BY <2>2, <2>3, Zenon
<1>5. report'["ehci"] = "ok" => EhciDone(24)'
  BY <1>2 DEF EhciInv
<1> QED
  BY <1>3, <1>4, <1>5 DEF EhciInv

(* At power-on.                                                               *)
LEMMA InitEhci == BootInit => EhciInv
<1> SUFFICES ASSUME BootInit PROVE EhciInv
  OBVIOUS
<1>1. bootPc["ehci"] = 0 /\ report["ehci"] = "none"
  BY DEF BootInit, Packages
<1>2. reg[Mux1] = {2}
  BY RegistersHas, Distinct DEF BootInit
<1> QED
  BY <1>1, <1>2 DEF EhciInv

(* A call begins.                                                             *)
LEMMA EhciBegin ==
  ASSUME Types, EhciInv, NEW k \in Packages, NEW c \in Calls(k), BeginCall(k, c)
  PROVE  EhciInv'
<1>1. /\ bootPc[k] = 0 /\ bootPc' = [bootPc EXCEPT ![k] = 1] /\ bootCall' = [bootCall EXCEPT ![k] = c]
      /\ ok' = [ok EXCEPT ![k] = TRUE]
      /\ report' = IF c.op = "InitSteps" THEN [report EXCEPT ![c.arg] = "none"] ELSE report
      /\ reg' = reg /\ dead' = dead /\ tmp' = tmp
  BY Begins, Zenon
<1>2. /\ bootPc \in [Packages -> Nat] /\ DOMAIN bootCall = Packages /\ DOMAIN ok = Packages
      /\ DOMAIN report = Ports \cup {"ehci"} /\ "ehci" \in Packages
  BY DEF Types, Packages
<1>3. CASE k # "ehci"
  <2>1. bootPc'["ehci"] = bootPc["ehci"] /\ ok'["ehci"] = ok["ehci"]
    BY <1>1, <1>2, <1>3, Zenon
  <2>2. c.op = "InitSteps" => c.arg \in Ports
    BY <1>3, CallsOf, Fields DEF Packages
  <2>3. "ehci" \notin Ports
    BY BringupAssumption
  <2>4. report'["ehci"] = report["ehci"]
    BY <1>1, <1>2, <2>2, <2>3
  <2> QED
    BY <1>1, <2>1, <2>4, EhciFrame
<1>4. CASE k = "ehci"
  <2>1. c.op = "InitSteps" /\ c.arg = "ehci"
    BY <1>4, CallsOf, Fields
  <2>2. bootPc'["ehci"] = 1 /\ report'["ehci"] = "none"
    BY <1>1, <1>2, <1>4, <2>1
  <2>3. EhciDone(1)'
    BY DEF EhciDone
  <2>4. reg'[Mux1] \subseteq {2, 3}
    BY <1>1 DEF EhciInv
  <2> QED
    BY <2>2, <2>3, <2>4 DEF EhciInv
<1> QED
  BY <1>3, <1>4

(* Another package's access.                                                  *)
LEMMA EhciOther ==
  ASSUME Types, EhciInv, NEW k \in Packages, k # "ehci",
         Protect(k) \/ Read32(k) \/ Write32(k) \/ HCReset(k)
  PROVE  EhciInv'
<1>1. "ehci" \in Packages
  BY DEF Packages
<1>2. /\ bootPc[k] # 0 /\ dead' = dead
      /\ bootPc'["ehci"] = bootPc["ehci"] /\ tmp'["ehci"] = tmp["ehci"] /\ ok'["ehci"] = ok["ehci"]
      /\ \E good \in BOOLEAN : report' = report \/ report' = Reported(k, good)
  BY <1>1, Accesses, Zenon
<1>3. report'["ehci"] = report["ehci"]
  <2>1. DOMAIN report = Ports \cup {"ehci"} /\ "ehci" \notin Ports
    BY BringupAssumption DEF Types
  <2>2. bootCall[k].op = "InitSteps" => bootCall[k].arg # "ehci"
    <3>1. bootCall[k] \in Calls(k)
      BY <1>2, OpFits
    <3> QED
      BY <2>1, <3>1, CallsOf, Fields DEF Packages
  <2> QED
    BY <1>2, <2>1, <2>2 DEF Reported
<1>4. \A x \in Registers : Owns("ehci", x) => reg'[x] = reg[x]
  BY <1>1, OthersKeep
<1> QED
  BY <1>2, <1>3, <1>4, EhciFrame

(* Its own.                                                                   *)
LEMMA EhciOwn ==
  ASSUME Types, EhciInv,
         Protect("ehci") \/ Read32("ehci") \/ Write32("ehci") \/ HCReset("ehci")
  PROVE  EhciInv'
<1> PICK n : n = bootPc["ehci"]
  OBVIOUS
<1> PICK o : o = Op("ehci")
  OBVIOUS
<1> PICK N : N = Len(ProgramOf("ehci", bootCall["ehci"]))
  OBVIOUS
<1>1. "ehci" \in Packages
  BY DEF Packages
<1>2. n # 0 /\ dead' = dead
  BY <1>1, Accesses, Zenon
<1>3. n \in 1 .. 23 /\ N = 23 /\ o = EhciInitSteps[n]
      /\ bootCall["ehci"].op = "InitSteps" /\ bootCall["ehci"].arg = "ehci"
  BY <1>2, EhciNow
<1>4. PICK good \in BOOLEAN : \E v :
        /\ good => ok["ehci"]
        /\ good /\ o.op \notin {"unlock", "lock", "load"} => OK(o, Reading(o.r, reg'))
        /\ o.op = "load" => v = Reading(o.r, reg)
        /\ \/ /\ n # N /\ bootPc'["ehci"] = n + 1
              /\ tmp'["ehci"] = v /\ ok'["ehci"] = good /\ report' = report
           \/ n = N /\ bootPc'["ehci"] = 0 /\ report' = Reported("ehci", good)
  BY <1>1, Accesses, Zenon
<1>5. PICK v :
        /\ good => ok["ehci"]
        /\ good /\ o.op \notin {"unlock", "lock", "load"} => OK(o, Reading(o.r, reg'))
        /\ o.op = "load" => v = Reading(o.r, reg)
        /\ \/ /\ n # N /\ bootPc'["ehci"] = n + 1
              /\ tmp'["ehci"] = v /\ ok'["ehci"] = good /\ report' = report
           \/ n = N /\ bootPc'["ehci"] = 0 /\ report' = Reported("ehci", good)
  BY <1>4, Zenon
<1>6. /\ reg[Mux1] \subseteq {2, 3} /\ (n = 3 => tmp["ehci"] \subseteq {2, 3})
      /\ report["ehci"] = "none" /\ (ok["ehci"] => EhciDone(n))
  BY <1>2 DEF EhciInv
<1>7. reg'[Mux1] \subseteq {2, 3} /\ (n = 2 => o.op = "load" /\ Reading(o.r, reg) \subseteq {2, 3})
  BY <1>2, <1>6, EhciMux
<1>8. good => EhciDone(n + 1)'
  <2> SUFFICES ASSUME good PROVE EhciDone(n + 1)'
    OBVIOUS
  <2>1. EhciDone(n) /\ (o.op \notin {"unlock", "lock", "load"} => OK(o, Reading(o.r, reg')))
    BY <1>5, <1>6, Zenon
  <2>2. n = 22 => tmp'["ehci"] = Reading(o.r, reg)
    <3>1. n = 22 => o.op = "load" /\ n # 23
      BY <1>3, EhciOps
    <3> QED
      BY <1>3, <1>5, <3>1
  <2> QED
    BY <1>2, <1>7, <2>1, <2>2, EhciAdvances, Zenon
<1>9. CASE n # 23
  <2>1. /\ bootPc'["ehci"] = n + 1 /\ tmp'["ehci"] = v /\ ok'["ehci"] = good /\ report' = report
    BY <1>3, <1>5, <1>9
  <2>2. bootPc'["ehci"] = 3 => tmp'["ehci"] \subseteq {2, 3}
    BY <1>3, <1>5, <1>7, <2>1
  <2>3. ok'["ehci"] => EhciDone(bootPc["ehci"])'
    <3> PICK m : m = n + 1
      OBVIOUS
    <3>1. ok'["ehci"] => EhciDone(m)'
      BY <1>8, <2>1, Zenon
    <3>2. bootPc'["ehci"] = m
      BY <2>1
    <3> QED
      BY <3>1, <3>2, Zenon
  <2> QED
    BY <1>6, <1>7, <2>1, <2>2, <2>3 DEF EhciInv
<1>10. CASE n = 23
  <2>1. bootPc'["ehci"] = 0 /\ report' = Reported("ehci", good)
    BY <1>3, <1>5, <1>10
  <2>2. DOMAIN report = Ports \cup {"ehci"}
    BY DEF Types
  <2>3. report'["ehci"] = "ok" => good
    BY <1>3, <2>1, <2>2 DEF Reported
  <2>4. report'["ehci"] = "ok" => EhciDone(24)'
    <3>1. n + 1 = 24
      BY <1>10
    <3> QED
      BY <1>8, <2>3, <3>1
  <2> QED
    BY <1>7, <2>1, <2>4 DEF EhciInv
<1> QED
  BY <1>9, <1>10

(* Every step.                                                                *)
LEMMA NextEhci == Types /\ EhciInv /\ [BootNext]_bootVars => EhciInv'
<1> SUFFICES ASSUME Types, EhciInv, [BootNext]_bootVars PROVE EhciInv'
  OBVIOUS
<1>1. CASE UNCHANGED bootVars
  BY <1>1, EhciFrame DEF bootVars
<1>2. ASSUME NEW k \in Packages, NEW c \in Calls(k), BeginCall(k, c) PROVE EhciInv'
  BY <1>2, EhciBegin
<1>3. ASSUME NEW k \in Packages, Protect(k) \/ Read32(k) \/ Write32(k) \/ HCReset(k)
      PROVE  EhciInv'
  BY <1>3, EhciOther, EhciOwn
<1> QED
  BY <1>1, <1>2, <1>3 DEF BootNext

(* When the traces are true.                                                  *)
LEMMA TraceFromInv == Types /\ VhubInv /\ EhciInv => TraceIsTrue
<1> SUFFICES ASSUME Types, VhubInv, EhciInv PROVE TraceIsTrue
  OBVIOUS
<1>1. ASSUME NEW p \in Ports, report[p] = "ok", bootPc["vhub"] = 0 PROVE VhubUp(p)
  <2> DEFINE t == PortTable[p]  u == t.phy
  <2>1. p \in AllPorts /\ u \in AllPorts
    BY BringupAssumption, PortFields DEF AllPorts
  <2>2. ~Shares(p)
    BY <1>1 DEF Shares, InitOf
  <2>3. PortUp(p) /\ PhyUp(u)
    BY <1>1, <2>2 DEF VhubInv
  <2>4. t.phyReset \subseteq {PortTable[u].reset} /\ PortTable[u].phyReset = {}
    BY <2>1 DEF PortTable, AllPorts
  <2>5. Live(p, reg) /\ Live(u, reg)
    BY <2>1, <2>3, <2>4, Lives DEF PortUp, PhyUp
  <2>6. Tuned(u)
    BY <2>3, <2>5, Distinct DEF Tuned, PhyUp
  <2>7. /\ reg[Mux0] \cap t.mask = t.bits /\ {31, 11} \subseteq reg[<<"ctrl", p>>]
        /\ 4 \in reg[<<"phyctrl", p>>] /\ reg[<<"swreset", p>>] = {}
        /\ t.quirk => 13 \in reg[<<"phyctrl", p>>]
    BY <2>3, Distinct DEF PortUp
  <2> HIDE DEF t
  <2> QED
    BY <2>5, <2>6, <2>7 DEF VhubUp, t
<1>2. ASSUME report["ehci"] = "ok" PROVE EhciUp
  <2>1. EhciDone(24)
    BY <1>2 DEF EhciInv
  <2>2. /\ reg[Mux1] = {3} /\ 18 \notin reg[Clk2] /\ 29 \notin reg[RstD]
        /\ "D" \notin dead /\ {26, 27} \subseteq reg[At("sts2", "D")]
        /\ 22 \in reg[At("sts3", "D")] /\ 21 \notin reg[At("sts3", "D")]
        /\ {10, 5} \subseteq reg[At("phyctrl", "D")] /\ {31, 11} \subseteq reg[At("ctrl", "D")]
        /\ "ehci" \notin dead /\ reg[At("flag", "ehci")] = {0}
        /\ 12 \in reg[At("portsc", "ehci")] /\ reg[At("cmd", "ehci")] = {0}
    BY <2>1 DEF EhciDone
  <2>3. Live("ehci", reg) /\ Live("D", reg)
    BY <2>2, Lives
  <2> QED
    BY <2>2, <2>3, Distinct DEF EhciUp, Tuned
<1> QED
  BY <1>1, <1>2 DEF TraceIsTrue

(* When every Step of a USB bring-up was OK, its port is up, whatever dies,   *)
(* whoever locks the SCU again in the middle, and whatever the other ports    *)
(* and packages do.                                                           *)
THEOREM TracesAreTrue == BootSpec => []TraceIsTrue
<1>1. BootInit => Types /\ VhubInv /\ EhciInv
  BY InitTypes, InitVhub, InitEhci
<1>2. Types /\ VhubInv /\ EhciInv /\ [BootNext]_bootVars => (Types /\ VhubInv /\ EhciInv)'
  BY NextTypes, NextVhub, NextEhci
<1> QED
  BY <1>1, <1>2, TraceFromInv, PTL DEF BootSpec

-----------------------------------------------------------------------------
(* The MAC and the display, while they are alone.                             *)

(* What their accesses leave: they reset no unit.                             *)
LEMMA Writes ==
  ASSUME Types, NEW k \in {"net", "gfx"}, NEW o, o = Op(k),
         Protect(k) \/ Read32(k) \/ Write32(k) \/ HCReset(k)
  PROVE  /\ o.op \in {"unlock", "lock", "load"} => reg' = reg
         /\ \A x \in Registers : x # o.r => reg'[x] = reg[x]
         /\ o.r \in Registers =>
              /\ o.op = "put" => (IF Writable(o.r) THEN reg'[o.r] = o.set ELSE reg' = reg)
              /\ o.op = "store" =>
                   (IF Writable(o.r) THEN reg'[o.r] = (tmp[k] \ o.clr) \cup o.set ELSE reg' = reg)
              /\ o.op = "clear" => (IF Writable(o.r) THEN reg'[o.r] = reg[o.r] \ o.set ELSE reg' = reg)
<1>1. k \in Packages /\ bootPc[k] # 0
  BY DEF Packages, Protect, Read32, Write32, HCReset
<1>2. Fits(k, o)
  BY <1>1, OpFits
<1>3. o.op = "assert" => o.r \in {RstA, Clk0}
  BY <1>2 DEF Fits
<1>4. \A x \in Registers : ResetOf(x[2]) # <<>> => ResetOf(x[2])[1] \notin {RstA, Clk0}
  BY Resets, Distinct
<1>5. ASSUME NEW x \in Registers, x # o.r PROVE reg'[x] = reg[x]
  <2>1. /\ o.op \in {"unlock", "lock", "load"} => reg' = reg
        /\ o.op \in {"put", "store", "clear"} => (x # o.r => reg'[x] = reg[x])
        /\ o.op = "assert" => (x # o.r =>
             reg'[x] = reg[x] \/ (ResetOf(x[2]) # <<>> /\ ResetOf(x[2])[1] = o.r))
    BY <1>1, Effects
  <2>2. o.op \in {"unlock", "lock", "load", "put", "store", "clear", "assert"}
    BY <1>2 DEF Fits
  <2> QED
    BY <1>3, <1>4, <1>5, <2>1, <2>2
<1>6. o.op \in {"unlock", "lock", "load"} => reg' = reg
  BY <1>1, Effects
<1>7. ASSUME o.r \in Registers
      PROVE  /\ o.op = "put" => (IF Writable(o.r) THEN reg'[o.r] = o.set ELSE reg' = reg)
             /\ o.op = "store" =>
                  (IF Writable(o.r) THEN reg'[o.r] = (tmp[k] \ o.clr) \cup o.set ELSE reg' = reg)
             /\ o.op = "clear" => (IF Writable(o.r) THEN reg'[o.r] = reg[o.r] \ o.set ELSE reg' = reg)
  <2>1. o.op \in {"put", "store", "clear", "assert"} =>
              \/ ~Writable(o.r) /\ reg' = reg
              \/ /\ Writable(o.r)
                 /\ o.op = "put" => reg'[o.r] = o.set
                 /\ o.op = "store" => reg'[o.r] = (tmp[k] \ o.clr) \cup o.set
                 /\ o.op = "clear" => reg'[o.r] = reg[o.r] \ o.set
    BY <1>1, <1>7, Effects
  <2> QED
    BY <2>1
<1> QED
  BY <1>5, <1>6, <1>7

(* What becomes of the keys.                                                  *)
LEMMA Keys ==
  ASSUME Types, NEW k \in Packages, NEW o, o = Op(k),
         Protect(k) \/ Read32(k) \/ Write32(k) \/ HCReset(k)
  PROVE  /\ o.op \notin {"unlock", "lock"} => scuKey' = scuKey
         /\ \A s \in SCUs : o.op = "unlock" /\ o.r = <<"protect", s>> => scuKey'[s]
<1>1. o.op \notin {"unlock", "lock"} => scuKey' = scuKey
  BY DEF Protect, Read32, Write32, HCReset
<1>2. ASSUME NEW s \in SCUs, o.op = "unlock", o.r = <<"protect", s>> PROVE scuKey'[s]
  <2>1. scuKey' = [scuKey EXCEPT ![o.r[2]] = (o.op = "unlock")]
    BY <1>2 DEF Protect, Read32, Write32, HCReset
  <2>2. scuKey \in [SCUs -> BOOLEAN] /\ o.r[2] = s
    BY <1>2 DEF Types
  <2> QED
    BY <1>2, <2>1, <2>2
<1> QED
  BY <1>1, <1>2

(* A call that is alone stays so only while nobody else begins or moves.      *)
LEMMA AloneOther ==
  ASSUME Types, NEW k \in Packages, NEW l \in Packages, l # k, bootPc[k] # 0
  PROVE  ~Alone(l)
  BY DEF Types, Alone

(* The n-th access of EnableMAC0RGMII.                                        *)
LEMMA NetOps ==
  LET P == EnableMAC0RGMII
      pin18 == At("pin18", "scu1")  pin19 == At("pin19", "scu1")  drive5 == At("drive5", "scu1")
  IN /\ P[1].op = "unlock" /\ P[1].r = <<"protect", "scu1">>
     /\ P[2].op = "clear" /\ P[2].r = RstC /\ P[2].set = {2, 5}
     /\ P[3].op = "clear" /\ P[3].r = Clk1 /\ P[3].set = {8}
     /\ P[4].op = "load" /\ P[4].r = pin18 /\ P[6].op = "load" /\ P[6].r = pin19
     /\ P[8].op = "load" /\ P[8].r = drive5
     /\ P[5].op = "store" /\ P[5].r = pin18 /\ P[5].clr = {0, 1, 2} /\ P[5].set = {0}
     /\ P[7].op = "store" /\ P[7].r = pin19 /\ P[7].clr = {0, 1, 2} /\ P[7].set = {0}
     /\ P[9].op = "store" /\ P[9].r = drive5 /\ P[9].clr = {0, 1, 2} /\ P[9].set = {0, 2}
     /\ P[10].op = "put" /\ P[10].r = At("delay", "scu1") /\ P[10].set = {1000}
     /\ P[11].op = "lock"
<1> DEFINE P == EnableMAC0RGMII
           pin18 == At("pin18", "scu1")
           pin19 == At("pin19", "scu1")
           drive5 == At("drive5", "scu1")
           delay == At("delay", "scu1")
<1>1. /\ P[1] = Unlock("scu1")
      /\ P[2] = Clear(RstC, {2, 5}) /\ P[3] = Clear(Clk1, {8})
      /\ P[4] = Load(pin18) /\ P[5] = Update(pin18, {0, 1, 2}, {0})
      /\ P[6] = Load(pin19) /\ P[7] = Update(pin19, {0, 1, 2}, {0})
      /\ P[8] = Load(drive5) /\ P[9] = Update(drive5, {0, 1, 2}, {0, 2})
      /\ P[10] = Put(delay, {1000}) /\ P[11] = Lock("scu1")
  BY NetProgram
<1> HIDE DEF P, pin18, pin19, drive5, delay
<1>2. P[1].op = "unlock" /\ P[1].r = <<"protect", "scu1">> /\ P[11].op = "lock"
  BY <1>1, KeyFields
<1>3. /\ P[2].op = "clear" /\ P[2].r = RstC /\ P[2].set = {2, 5}
      /\ P[3].op = "clear" /\ P[3].r = Clk1 /\ P[3].set = {8}
      /\ P[4].op = "load" /\ P[4].r = pin18 /\ P[6].op = "load" /\ P[6].r = pin19
      /\ P[8].op = "load" /\ P[8].r = drive5
  BY <1>1, OpFields
<1>4. /\ P[5].op = "store" /\ P[5].r = pin18 /\ P[5].clr = {0, 1, 2} /\ P[5].set = {0}
      /\ P[7].op = "store" /\ P[7].r = pin19 /\ P[7].clr = {0, 1, 2} /\ P[7].set = {0}
      /\ P[9].op = "store" /\ P[9].r = drive5 /\ P[9].clr = {0, 1, 2} /\ P[9].set = {0, 2}
      /\ P[10].op = "put" /\ P[10].r = delay /\ P[10].set = {1000}
  BY <1>1, OpFields
<1> QED
  BY <1>2, <1>3, <1>4 DEF P, pin18, pin19, drive5, delay

(* The access it is at.                                                       *)
LEMMA NetNow ==
  ASSUME Types, bootPc["net"] # 0
  PROVE  /\ bootPc["net"] \in 1 .. 11 /\ Len(ProgramOf("net", bootCall["net"])) = 11
         /\ Op("net") = EnableMAC0RGMII[bootPc["net"]] /\ bootCall["net"].op # "InitSteps"
<1> DEFINE P == ProgramOf("net", bootCall["net"])
           n == bootPc["net"]
<1>1. "net" \in Packages
  BY DEF Packages
<1>2. bootCall["net"] \in Calls("net") /\ n \in 1 .. Len(P) /\ Op("net") = P[n]
  BY <1>1, OpFits
<1>3. bootCall["net"] = C("EnableMAC0RGMII", "mac")
  BY <1>2, CallsOf
<1>4. P = EnableMAC0RGMII
  BY <1>3, ProgramsOf
<1>5. Len(EnableMAC0RGMII) = 11
  BY NetProgram
<1> HIDE DEF P, n
<1>6. Len(P) = 11 /\ n \in 1 .. 11 /\ Op("net") = EnableMAC0RGMII[n]
  BY <1>2, <1>4, <1>5
<1> QED
  BY <1>3, <1>6, Fields DEF P, n

(* The pins' registers hold their field only.                                 *)
LEMMA NetPins ==
  ASSUME Types, bootPc["net"] # 0, NEW n, n = bootPc["net"], NEW o, o = Op("net"),
         Protect("net") \/ Read32("net") \/ Write32("net") \/ HCReset("net"),
         \A x \in {"pin18", "pin19", "drive5"} : reg[At(x, "scu1")] \subseteq 0 .. 2,
         n \in {5, 7, 9} => tmp["net"] \subseteq 0 .. 2
  PROVE  /\ \A x \in {"pin18", "pin19", "drive5"} : reg'[At(x, "scu1")] \subseteq 0 .. 2
         /\ n \in {4, 6, 8} => o.op = "load" /\ Reading(o.r, reg) \subseteq 0 .. 2
<1>1. n \in 1 .. 11 /\ o = EnableMAC0RGMII[n]
  BY NetNow
<1>2. /\ n \in {4, 6, 8} => o.op = "load" /\ \E x \in {"pin18", "pin19", "drive5"} : o.r = At(x, "scu1")
      /\ n \in {5, 7, 9} => /\ o.op = "store" /\ o.clr = {0, 1, 2} /\ o.set \subseteq 0 .. 2
                            /\ \E x \in {"pin18", "pin19", "drive5"} : o.r = At(x, "scu1")
      /\ n \notin {5, 7, 9} => \A x \in {"pin18", "pin19", "drive5"} :
                                 o.op \in {"unlock", "lock", "load"} \/ o.r # At(x, "scu1")
  BY <1>1, NetOps, Distinct
<1>3. \A x \in {"pin18", "pin19", "drive5"} : At(x, "scu1") \in Registers
  BY RegistersHas
<1>4. ASSUME NEW x \in {"pin18", "pin19", "drive5"} PROVE reg'[At(x, "scu1")] \subseteq 0 .. 2
  <2>1. CASE n \notin {5, 7, 9}
    BY <1>2, <1>3, <2>1, Writes
  <2>2. CASE n \in {5, 7, 9} /\ o.r # At(x, "scu1")
    BY <1>3, <2>2, Writes
  <2>3. CASE n \in {5, 7, 9} /\ o.r = At(x, "scu1")
    <3>1. reg' = reg \/ reg'[o.r] = (tmp["net"] \ o.clr) \cup o.set
      BY <1>2, <1>3, <2>3, Writes
    <3> QED
      BY <1>2, <2>3, <3>1
  <2> QED
    BY <2>1, <2>2, <2>3
<1>5. \A x \in {"pin18", "pin19", "drive5"} : Reading(At(x, "scu1"), reg) \subseteq 0 .. 2
  BY DEF Reading
<1> QED
  BY <1>2, <1>4, <1>5

(* Its accesses, one by one, while SCU1 is unlocked.                          *)
LEMMA NetAdvances ==
  ASSUME Types, bootPc["net"] # 0, NEW n, n = bootPc["net"], NetDone(n), n > 1 => scuKey["scu1"],
         Protect("net") \/ Read32("net") \/ Write32("net") \/ HCReset("net"),
         n \in {5, 7, 9} => tmp["net"] \subseteq 0 .. 2
  PROVE  NetDone(n + 1)' /\ (n < 11 => scuKey'["scu1"])
<1> PICK o : o = Op("net")
  OBVIOUS
<1> DEFINE pin18 == At("pin18", "scu1")
           pin19 == At("pin19", "scu1")
           drive5 == At("drive5", "scu1")
           delay == At("delay", "scu1")
<1>1. n \in 1 .. 11 /\ o = EnableMAC0RGMII[n] /\ "net" \in Packages /\ "scu1" \in SCUs
  BY NetNow DEF Packages, SCUs
<1>2. /\ {RstC, Clk1, pin18, pin19, drive5, delay} \subseteq Registers
      /\ \A r \in {RstC, Clk1, pin18, pin19, drive5, delay} : r[2] = "scu1"
      /\ RstC \notin {Clk1, pin18, pin19, drive5, delay} /\ Clk1 \notin {pin18, pin19, drive5, delay}
      /\ pin18 \notin {pin19, drive5, delay} /\ pin19 \notin {drive5, delay} /\ drive5 # delay
  BY RegistersHas, Distinct
<1>3. n > 1 => \A r \in {RstC, Clk1, pin18, pin19, drive5, delay} : Writable(r)
  BY <1>1, <1>2 DEF Writable
<1>4. /\ n = 1 => o.op = "unlock" /\ o.r = <<"protect", "scu1">>
      /\ n = 2 => o.op = "clear" /\ o.r = RstC /\ o.set = {2, 5}
      /\ n = 3 => o.op = "clear" /\ o.r = Clk1 /\ o.set = {8}
      /\ n \in {4, 6, 8} => o.op = "load"
      /\ n = 5 => o.op = "store" /\ o.r = pin18 /\ o.clr = {0, 1, 2} /\ o.set = {0}
      /\ n = 7 => o.op = "store" /\ o.r = pin19 /\ o.clr = {0, 1, 2} /\ o.set = {0}
      /\ n = 9 => o.op = "store" /\ o.r = drive5 /\ o.clr = {0, 1, 2} /\ o.set = {0, 2}
      /\ n = 10 => o.op = "put" /\ o.r = delay /\ o.set = {1000}
      /\ n = 11 => o.op = "lock"
  BY <1>1, NetOps
<1> HIDE DEF pin18, pin19, drive5, delay
<1>5. n < 11 => scuKey'["scu1"]
  BY <1>1, <1>4, Keys
<1>6. /\ n # 2 => reg'[RstC] = reg[RstC]
      /\ n # 3 => reg'[Clk1] = reg[Clk1]
      /\ n # 5 => reg'[pin18] = reg[pin18]
      /\ n # 7 => reg'[pin19] = reg[pin19]
      /\ n # 9 => reg'[drive5] = reg[drive5]
      /\ n # 10 => reg'[delay] = reg[delay]
  BY <1>1, <1>2, <1>4, Writes
<1>7. /\ n = 2 => reg'[RstC] = reg[RstC] \ {2, 5}
      /\ n = 3 => reg'[Clk1] = reg[Clk1] \ {8}
      /\ n = 5 => reg'[pin18] = (tmp["net"] \ {0, 1, 2}) \cup {0}
      /\ n = 7 => reg'[pin19] = (tmp["net"] \ {0, 1, 2}) \cup {0}
      /\ n = 9 => reg'[drive5] = (tmp["net"] \ {0, 1, 2}) \cup {0, 2}
      /\ n = 10 => reg'[delay] = {1000}
  BY <1>2, <1>3, <1>4, Writes
<1>8. n \in {5, 7, 9} => tmp["net"] \ {0, 1, 2} = {}
  OBVIOUS
<1>9. /\ n > 2 => reg[RstC] \cap {2, 5} = {}
      /\ n > 3 => 8 \notin reg[Clk1]
      /\ n > 5 => reg[pin18] = {0}
      /\ n > 7 => reg[pin19] = {0}
      /\ n > 9 => reg[drive5] = {0, 2}
      /\ n > 10 => reg[delay] = {1000}
  BY DEF NetDone, pin18, pin19, drive5, delay
<1>10. /\ n + 1 > 2 => reg'[RstC] \cap {2, 5} = {}
       /\ n + 1 > 3 => 8 \notin reg'[Clk1]
       /\ n + 1 > 5 => reg'[pin18] = {0}
       /\ n + 1 > 7 => reg'[pin19] = {0}
       /\ n + 1 > 9 => reg'[drive5] = {0, 2}
       /\ n + 1 > 10 => reg'[delay] = {1000}
  BY <1>1, <1>6, <1>7, <1>8, <1>9
<1> QED
  BY <1>5, <1>10 DEF NetDone, pin18, pin19, drive5, delay

(* What the MAC's invariant depends on.                                       *)
LEMMA NetFrame ==
  ASSUME Types, NetInv, bootPc'["net"] = bootPc["net"], tmp'["net"] = tmp["net"], mac' = mac,
         Alone("net")' => Alone("net") /\ scuKey' = scuKey,
         "net" \notin overlapped' => "net" \notin overlapped,
         \A x \in Registers : Owns("net", x) => reg'[x] = reg[x]
  PROVE  NetInv'
<1>1. /\ reg'[RstC] = reg[RstC] /\ reg'[Clk1] = reg[Clk1]
      /\ \A x \in {"pin18", "pin19", "drive5", "delay"} : reg'[At(x, "scu1")] = reg[At(x, "scu1")]
  <2>1. \A x \in {"pin18", "pin19", "drive5", "delay"} : Owns("net", At(x, "scu1"))
    BY Distinct DEF Owns
  <2>2. Owns("net", RstC) /\ Owns("net", Clk1)
    BY DEF Owns
  <2> QED
    BY <2>1, <2>2, RegistersHas
<1>2. ASSUME NEW n, NetDone(n) PROVE NetDone(n)'
  BY <1>1, <1>2 DEF NetDone
<1>3. /\ \A x \in {"pin18", "pin19", "drive5"} : reg'[At(x, "scu1")] \subseteq 0 .. 2
      /\ bootPc'["net"] \in {5, 7, 9} => tmp'["net"] \subseteq 0 .. 2
  BY <1>1 DEF NetInv
<1>4. bootPc'["net"] # 0 => ~mac'
  BY Zenon DEF NetInv
<1>5. Alone("net")' => NetDone(bootPc["net"])' /\ (bootPc'["net"] > 1 => scuKey'["scu1"])
  <2> SUFFICES ASSUME Alone("net")' PROVE NetDone(bootPc["net"])' /\ (bootPc'["net"] > 1 => scuKey'["scu1"])
    OBVIOUS
  <2> PICK n : n = bootPc["net"]
    OBVIOUS
  <2>1. Alone("net") /\ scuKey' = scuKey
    OBVIOUS
  <2>2. NetDone(n) /\ (n > 1 => scuKey["scu1"])
    BY <2>1 DEF NetInv
  <2>3. NetDone(n)'
    BY <1>2, <2>2
  <2>4. bootPc'["net"] = n
    OBVIOUS
  <2>5. n > 1 => scuKey'["scu1"]
    BY <2>1, <2>2
  <2>6. NetDone(bootPc["net"])'
    BY <2>3, <2>4, Zenon
  <2> QED
    BY <2>4, <2>5, <2>6
<1>6. mac' /\ "net" \notin overlapped' => NetDone(11)'
  BY <1>2 DEF NetInv
<1> QED
  BY <1>3, <1>4, <1>5, <1>6, Zenon DEF NetInv

(* At power-on.                                                               *)
LEMMA InitNet == BootInit => NetInv
<1> SUFFICES ASSUME BootInit PROVE NetInv
  OBVIOUS
<1>1. bootPc["net"] = 0 /\ ~mac
  BY DEF BootInit, Packages
<1>2. ASSUME NEW x \in {"pin18", "pin19", "drive5"} PROVE reg[At(x, "scu1")] = {}
  <2>1. At(x, "scu1") \in Registers
    BY RegistersHas
  <2>2. At(x, "scu1") \notin {Mux0, Mux1, RstA, RstB, RstC, RstD, Clk0, Clk1, Clk2, Ctrl2}
    BY Distinct
  <2> QED
    BY <2>1, <2>2 DEF BootInit
<1> QED
  BY <1>1, <1>2 DEF NetInv, Alone

(* A call begins.                                                             *)
LEMMA NetBegin ==
  ASSUME Types, NetInv, NEW k \in Packages, NEW c \in Calls(k), BeginCall(k, c)
  PROVE  NetInv'
<1>1. /\ bootPc[k] = 0 /\ bootPc' = [bootPc EXCEPT ![k] = 1] /\ mac' = (mac /\ k # "net")
      /\ overlapped' = IF Busy = {} THEN overlapped \ {k} ELSE overlapped \cup Busy \cup {k}
      /\ scuKey' = scuKey /\ reg' = reg /\ tmp' = tmp
  BY Begins, Zenon
<1>2. bootPc \in [Packages -> Nat] /\ "net" \in Packages /\ mac \in BOOLEAN
  BY Zenon DEF Types, Packages
<1>3. CASE k # "net"
  <2>1. bootPc'["net"] = bootPc["net"] /\ mac' = mac
    BY <1>1, <1>2, <1>3, Zenon
  <2>2. "net" \notin overlapped' => "net" \notin overlapped
    BY <1>1, <1>3
  <2>3. Alone("net")' => Alone("net")
    BY <2>1, <2>2 DEF Alone
  <2> QED
    BY <1>1, <2>1, <2>2, <2>3, NetFrame
<1>4. CASE k = "net"
  <2>1. bootPc'["net"] = 1
    BY <1>1, <1>2, <1>4
  <2>2. ~mac'
    BY <1>1, <1>4
  <2>3. NetDone(1)'
    BY DEF NetDone
  <2>4. \A x \in {"pin18", "pin19", "drive5"} : reg'[At(x, "scu1")] \subseteq 0 .. 2
    BY <1>1 DEF NetInv
  <2> QED
    BY <2>1, <2>2, <2>3, <2>4 DEF NetInv
<1> QED
  BY <1>3, <1>4

(* Another package's access.                                                  *)
LEMMA NetOther ==
  ASSUME Types, NetInv, NEW k \in Packages, k # "net",
         Protect(k) \/ Read32(k) \/ Write32(k) \/ HCReset(k)
  PROVE  NetInv'
<1>1. "net" \in Packages
  BY DEF Packages
<1>2. /\ bootPc[k] # 0 /\ overlapped' = overlapped /\ bootPc'["net"] = bootPc["net"] /\ tmp'["net"] = tmp["net"]
      /\ mac' = mac
  BY <1>1, Accesses, Zenon
<1>3. ~Alone("net")
  BY <1>1, <1>2, AloneOther
<1>4. ~Alone("net")'
  BY <1>2, <1>3 DEF Alone
<1>5. \A x \in Registers : Owns("net", x) => reg'[x] = reg[x]
  BY <1>1, OthersKeep
<1> QED
  BY <1>2, <1>4, <1>5, NetFrame

(* Its own.                                                                   *)
LEMMA NetOwn ==
  ASSUME Types, NetInv,
         Protect("net") \/ Read32("net") \/ Write32("net") \/ HCReset("net")
  PROVE  NetInv'
<1> PICK n : n = bootPc["net"]
  OBVIOUS
<1> PICK o : o = Op("net")
  OBVIOUS
<1> PICK N : N = Len(ProgramOf("net", bootCall["net"]))
  OBVIOUS
<1>1. "net" \in Packages
  BY DEF Packages
<1>2. n # 0 /\ overlapped' = overlapped
  BY <1>1, Accesses, Zenon
<1>3. PICK v :
        /\ o.op = "load" => v = Reading(o.r, reg)
        /\ \/ n # N /\ bootPc'["net"] = n + 1 /\ tmp'["net"] = v /\ mac' = mac
           \/ n = N /\ bootPc'["net"] = 0
  BY <1>1, Accesses, Zenon
<1>4. n \in 1 .. 11 /\ N = 11
  BY <1>2, NetNow
<1>5. /\ \A x \in {"pin18", "pin19", "drive5"} : reg[At(x, "scu1")] \subseteq 0 .. 2
      /\ n \in {5, 7, 9} => tmp["net"] \subseteq 0 .. 2
  BY DEF NetInv
<1>6. /\ \A x \in {"pin18", "pin19", "drive5"} : reg'[At(x, "scu1")] \subseteq 0 .. 2
      /\ n \in {4, 6, 8} => o.op = "load" /\ Reading(o.r, reg) \subseteq 0 .. 2
  BY <1>2, <1>5, NetPins
<1>7. ~mac
  BY <1>2, Zenon DEF NetInv
<1>8. "net" \notin overlapped => NetDone(n + 1)' /\ (n < 11 => scuKey'["scu1"])
  <2> SUFFICES ASSUME "net" \notin overlapped PROVE NetDone(n + 1)' /\ (n < 11 => scuKey'["scu1"])
    OBVIOUS
  <2>1. NetDone(n) /\ (n > 1 => scuKey["scu1"])
    BY <1>2 DEF NetInv, Alone
  <2> QED
    BY <1>2, <1>5, <2>1, NetAdvances
<1>9. CASE n # N
  <2>1. bootPc'["net"] = n + 1 /\ tmp'["net"] = v
    BY <1>3, <1>9, Zenon
  <2>5. n < 11
    <3>1. n \in 1 .. 11 /\ n # 11
      BY <1>4, <1>9, Zenon
    <3> QED
      BY <3>1
  <2>2. ~mac'
    BY <1>3, <1>7, <1>9, Zenon
  <2>3. bootPc'["net"] \in {5, 7, 9} => tmp'["net"] \subseteq 0 .. 2
    <3>1. n \in {4, 6, 8} => v \subseteq 0 .. 2
      BY <1>3, <1>6
    <3> QED
      BY <1>4, <2>1, <3>1
  <2>4. Alone("net")' => NetDone(bootPc["net"])' /\ (bootPc'["net"] > 1 => scuKey'["scu1"])
    <3> SUFFICES ASSUME Alone("net")' PROVE NetDone(bootPc["net"])' /\ (bootPc'["net"] > 1 => scuKey'["scu1"])
      OBVIOUS
    <3> PICK m : m = n + 1
      OBVIOUS
    <3>1. "net" \notin overlapped
      BY <1>2 DEF Alone
    <3>2. NetDone(m)' /\ (n < 11 => scuKey'["scu1"])
      BY <1>8, <3>1, Zenon
    <3>3. bootPc'["net"] = m
      BY <2>1
    <3>4. NetDone(bootPc["net"])'
      BY <3>2, <3>3, Zenon
    <3> QED
      BY <2>5, <3>2, <3>4
  <2> QED
    BY <1>6, <2>2, <2>3, <2>4, Zenon DEF NetInv
<1>10. CASE n = N
  <2>1. bootPc'["net"] = 0
    BY <1>3, <1>10
  <2>2. "net" \notin overlapped => NetDone(11)'
    <3> SUFFICES ASSUME "net" \notin overlapped PROVE NetDone(11)'
      OBVIOUS
    <3> PICK m : m = n + 1
      OBVIOUS
    <3>1. NetDone(m)'
      BY <1>8, Zenon
    <3>2. m = 12
      BY <1>4, <1>10
    <3> QED
      BY <3>1, <3>2 DEF NetDone
  <2> QED
    BY <1>2, <1>6, <2>1, <2>2 DEF NetInv, Alone
<1> QED
  BY <1>9, <1>10

(* Every step.                                                                *)
LEMMA NextNet == Types /\ NetInv /\ [BootNext]_bootVars => NetInv'
<1> SUFFICES ASSUME Types, NetInv, [BootNext]_bootVars PROVE NetInv'
  OBVIOUS
<1>1. CASE UNCHANGED bootVars
  <2>1. (Alone("net")' => Alone("net") /\ scuKey' = scuKey) /\ mac' = mac /\ bootPc' = bootPc /\ tmp' = tmp
    BY <1>1 DEF bootVars, Alone
  <2> QED
    BY <1>1, <2>1, NetFrame DEF bootVars
<1>2. ASSUME NEW k \in Packages, NEW c \in Calls(k), BeginCall(k, c) PROVE NetInv'
  BY <1>2, NetBegin
<1>3. ASSUME NEW k \in Packages, Protect(k) \/ Read32(k) \/ Write32(k) \/ HCReset(k)
      PROVE  NetInv'
  BY <1>3, NetOther, NetOwn
<1> QED
  BY <1>1, <1>2, <1>3 DEF BootNext

(* The n-th access of ConfigureCRT.                                           *)
LEMMA CrtOps ==
  ASSUME NEW m, m # Odd
  PROVE  LET P == ConfigureCRT(m)  sel2 == At("sel2", "scu0")  crt1clk == At("crt1clk", "scu0")
             dpclk == At("dpclk", "scu1")  de0 == At("de0", "mcu")
         IN /\ P[1].op = "unlock" /\ P[1].r = <<"protect", "scu0">>
            /\ P[2].op = "assert" /\ P[2].r = Clk0
            /\ P[3].op = "assert" /\ P[3].r = RstA
            /\ P[4].op = "lock"
            /\ P[5].op = "unlock" /\ P[5].r = <<"protect", "scu0">>
            /\ P[6].op = "load"
            /\ P[7].op = "store" /\ P[7].r = sel2 /\ P[7].clr = {} /\ P[7].set = {14}
            /\ P[8].op = "put" /\ P[8].r = crt1clk /\ P[8].set = {m}
            /\ P[9].op = "lock"
            /\ P[10].op = "unlock" /\ P[10].r = <<"protect", "scu1">>
            /\ P[11].op = "load"
            /\ P[12].op = "store" /\ P[12].r = DpDac /\ P[12].clr = {} /\ P[12].set = {10}
            /\ P[13].op = "put" /\ P[13].r = dpclk /\ P[13].set = {1}
            /\ P[14].op = "lock"
            /\ P[15].op = "unlock" /\ P[15].r = <<"protect", "scu0">>
            /\ P[16].op = "clear" /\ P[16].r = RstA /\ P[16].set = {13}
            /\ P[17].op = "lock"
            /\ P[18].op = "unlock" /\ P[18].r = <<"protect", "scu0">>
            /\ P[19].op = "clear" /\ P[19].r = Clk0 /\ P[19].set = {20}
            /\ P[20].op = "load"
            /\ P[21].op = "store" /\ P[21].r = Dac /\ P[21].clr = {} /\ P[21].set = {9, 11}
            /\ P[22].op = "lock"
            /\ P[23].op = "put" /\ P[23].r = de0 /\ P[23].set = {m}
<1> DEFINE P == ConfigureCRT(m)
           sel2 == At("sel2", "scu0")
           crt1clk == At("crt1clk", "scu0")
           dpclk == At("dpclk", "scu1")
           de0 == At("de0", "mcu")
<1>1. /\ P[1].op = "unlock" /\ P[1].r = <<"protect", "scu0">>
      /\ P[4].op = "lock"
      /\ P[5].op = "unlock" /\ P[5].r = <<"protect", "scu0">>
      /\ P[9].op = "lock"
      /\ P[10].op = "unlock" /\ P[10].r = <<"protect", "scu1">>
      /\ P[14].op = "lock"
      /\ P[15].op = "unlock" /\ P[15].r = <<"protect", "scu0">>
      /\ P[17].op = "lock"
      /\ P[18].op = "unlock" /\ P[18].r = <<"protect", "scu0">>
      /\ P[22].op = "lock"
  <2>1. /\ P[1] = Unlock("scu0")
        /\ P[4] = Lock("scu0")
        /\ P[5] = Unlock("scu0")
        /\ P[9] = Lock("scu0")
        /\ P[10] = Unlock("scu1")
        /\ P[14] = Lock("scu1")
        /\ P[15] = Unlock("scu0")
        /\ P[17] = Lock("scu0")
        /\ P[18] = Unlock("scu0")
        /\ P[22] = Lock("scu0")
    BY CrtProgram
  <2> HIDE DEF P, sel2, crt1clk, dpclk, de0
  <2> QED
    BY <2>1, KeyFields
<1>2. /\ P[2].op = "assert" /\ P[2].r = Clk0
      /\ P[3].op = "assert" /\ P[3].r = RstA
      /\ P[6].op = "load"
      /\ P[7].op = "store" /\ P[7].r = sel2 /\ P[7].clr = {} /\ P[7].set = {14}
      /\ P[8].op = "put" /\ P[8].r = crt1clk /\ P[8].set = {m}
      /\ P[11].op = "load"
  <2>1. /\ P[2] = Raise(Clk0, {20})
        /\ P[3] = Raise(RstA, {13})
        /\ P[6] = Load(sel2)
        /\ P[7] = Update(sel2, {}, {14})
        /\ P[8] = Put(crt1clk, {m})
        /\ P[11] = Load(DpDac)
    BY CrtProgram
  <2> HIDE DEF P, sel2, crt1clk, dpclk, de0
  <2> QED
    BY <2>1, OpFields
<1>3. /\ P[12].op = "store" /\ P[12].r = DpDac /\ P[12].clr = {} /\ P[12].set = {10}
      /\ P[13].op = "put" /\ P[13].r = dpclk /\ P[13].set = {1}
      /\ P[16].op = "clear" /\ P[16].r = RstA /\ P[16].set = {13}
      /\ P[19].op = "clear" /\ P[19].r = Clk0 /\ P[19].set = {20}
      /\ P[20].op = "load"
      /\ P[21].op = "store" /\ P[21].r = Dac /\ P[21].clr = {} /\ P[21].set = {9, 11}
  <2>1. /\ P[12] = Update(DpDac, {}, {10})
        /\ P[13] = Put(dpclk, {1})
        /\ P[16] = Clear(RstA, {13})
        /\ P[19] = Clear(Clk0, {20})
        /\ P[20] = Load(Dac)
        /\ P[21] = Update(Dac, {}, {9, 11})
    BY CrtProgram
  <2> HIDE DEF P, sel2, crt1clk, dpclk, de0
  <2> QED
    BY <2>1, OpFields
<1>4. /\ P[23].op = "put" /\ P[23].r = de0 /\ P[23].set = {m}
  <2>1. /\ P[23] = Put(de0, {m})
    BY CrtProgram
  <2> HIDE DEF P, sel2, crt1clk, dpclk, de0
  <2> QED
    BY <2>1, OpFields
<1> QED
  BY <1>1, <1>2, <1>3, <1>4

DpSteps == EnableAST2700Display \o configureCRTClocksFor(5) \o DE0(5)

(* The n-th access of ConfigureAST2700DP800x600.                              *)
LEMMA DpOps ==
  LET P == DpSteps
      sel2 == At("sel2", "scu0")  crt1clk == At("crt1clk", "scu0")  dpclk == At("dpclk", "scu1")
      de0 == At("de0", "mcu")  vlink == At("vlink", "dp")  source == At("source", "dp")
      pcie0 == At("pcie0", "scu0")  pcie1 == At("pcie1", "scu0")  handoff == {7, 9, 10, 11, 12}
  IN /\ P[1].op = "unlock" /\ P[1].r = <<"protect", "scu0">>
     /\ P[2].op = "clear" /\ P[2].r = Clk0 /\ P[2].set = {3, 5, 17, 18, 20}
     /\ P[3].op = "clear" /\ P[3].r = RstA /\ P[3].set = {13, 28, 29}
     /\ P[4].op = "clear" /\ P[4].r = RstB /\ P[4].set = {12}
     /\ P[5].op = "load"
     /\ P[6].op = "store" /\ P[6].r = Dac /\ P[6].clr = {} /\ P[6].set = {9, 11}
     /\ P[7].op = "lock"
     /\ P[8].op = "unlock" /\ P[8].r = <<"protect", "scu1">>
     /\ P[9].op = "load"
     /\ P[10].op = "store" /\ P[10].r = DpDac /\ P[10].clr = {} /\ P[10].set = {10}
     /\ P[11].op = "lock"
     /\ P[12].op = "put" /\ P[12].r = vlink /\ P[12].set = {1}
     /\ P[13].op = "load"
     /\ P[14].op = "store" /\ P[14].r = pcie0 /\ P[14].clr = {} /\ P[14].set = handoff
     /\ P[15].op = "load"
     /\ P[16].op = "store" /\ P[16].r = pcie1 /\ P[16].clr = {} /\ P[16].set = handoff
     /\ P[17].op = "load"
     /\ P[18].op = "store" /\ P[18].r = source /\ P[18].clr = {24, 28} /\ P[18].set = {}
     /\ P[19].op = "unlock" /\ P[19].r = <<"protect", "scu0">>
     /\ P[20].op = "load"
     /\ P[21].op = "store" /\ P[21].r = sel2 /\ P[21].clr = {} /\ P[21].set = {14}
     /\ P[22].op = "put" /\ P[22].r = crt1clk /\ P[22].set = {5}
     /\ P[23].op = "lock"
     /\ P[24].op = "unlock" /\ P[24].r = <<"protect", "scu1">>
     /\ P[25].op = "load"
     /\ P[26].op = "store" /\ P[26].r = DpDac /\ P[26].clr = {} /\ P[26].set = {10}
     /\ P[27].op = "put" /\ P[27].r = dpclk /\ P[27].set = {1}
     /\ P[28].op = "lock"
     /\ P[29].op = "put" /\ P[29].r = de0 /\ P[29].set = {5}
<1> DEFINE P == DpSteps
           sel2 == At("sel2", "scu0")
           crt1clk == At("crt1clk", "scu0")
           dpclk == At("dpclk", "scu1")
           de0 == At("de0", "mcu")
           vlink == At("vlink", "dp")
           source == At("source", "dp")
           pcie0 == At("pcie0", "scu0")
           pcie1 == At("pcie1", "scu0")
           handoff == {7, 9, 10, 11, 12}
<1>1. /\ P[1].op = "unlock" /\ P[1].r = <<"protect", "scu0">>
      /\ P[7].op = "lock"
      /\ P[8].op = "unlock" /\ P[8].r = <<"protect", "scu1">>
      /\ P[11].op = "lock"
      /\ P[19].op = "unlock" /\ P[19].r = <<"protect", "scu0">>
      /\ P[23].op = "lock"
      /\ P[24].op = "unlock" /\ P[24].r = <<"protect", "scu1">>
      /\ P[28].op = "lock"
  <2>1. /\ P[1] = Unlock("scu0")
        /\ P[7] = Lock("scu0")
        /\ P[8] = Unlock("scu1")
        /\ P[11] = Lock("scu1")
        /\ P[19] = Unlock("scu0")
        /\ P[23] = Lock("scu0")
        /\ P[24] = Unlock("scu1")
        /\ P[28] = Lock("scu1")
    BY DpProgram DEF DpSteps
  <2> HIDE DEF P, sel2, crt1clk, dpclk, de0, vlink, source, pcie0, pcie1, handoff
  <2> QED
    BY <2>1, KeyFields
<1>2. /\ P[2].op = "clear" /\ P[2].r = Clk0 /\ P[2].set = {3, 5, 17, 18, 20}
      /\ P[3].op = "clear" /\ P[3].r = RstA /\ P[3].set = {13, 28, 29}
      /\ P[4].op = "clear" /\ P[4].r = RstB /\ P[4].set = {12}
      /\ P[5].op = "load"
      /\ P[6].op = "store" /\ P[6].r = Dac /\ P[6].clr = {} /\ P[6].set = {9, 11}
      /\ P[9].op = "load"
  <2>1. /\ P[2] = Clear(Clk0, {3, 5, 17, 18, 20})
        /\ P[3] = Clear(RstA, {13, 28, 29})
        /\ P[4] = Clear(RstB, {12})
        /\ P[5] = Load(Dac)
        /\ P[6] = Update(Dac, {}, {9, 11})
        /\ P[9] = Load(DpDac)
    BY DpProgram DEF DpSteps
  <2> HIDE DEF P, sel2, crt1clk, dpclk, de0, vlink, source, pcie0, pcie1, handoff
  <2> QED
    BY <2>1, OpFields
<1>3. /\ P[10].op = "store" /\ P[10].r = DpDac /\ P[10].clr = {} /\ P[10].set = {10}
      /\ P[12].op = "put" /\ P[12].r = vlink /\ P[12].set = {1}
      /\ P[13].op = "load"
      /\ P[14].op = "store" /\ P[14].r = pcie0 /\ P[14].clr = {} /\ P[14].set = handoff
      /\ P[15].op = "load"
      /\ P[16].op = "store" /\ P[16].r = pcie1 /\ P[16].clr = {} /\ P[16].set = handoff
  <2>1. /\ P[10] = Update(DpDac, {}, {10})
        /\ P[12] = Put(vlink, {1})
        /\ P[13] = Load(pcie0)
        /\ P[14] = Update(pcie0, {}, handoff)
        /\ P[15] = Load(pcie1)
        /\ P[16] = Update(pcie1, {}, handoff)
    BY DpProgram DEF DpSteps
  <2> HIDE DEF P, sel2, crt1clk, dpclk, de0, vlink, source, pcie0, pcie1, handoff
  <2> QED
    BY <2>1, OpFields
<1>4. /\ P[17].op = "load"
      /\ P[18].op = "store" /\ P[18].r = source /\ P[18].clr = {24, 28} /\ P[18].set = {}
      /\ P[20].op = "load"
      /\ P[21].op = "store" /\ P[21].r = sel2 /\ P[21].clr = {} /\ P[21].set = {14}
      /\ P[22].op = "put" /\ P[22].r = crt1clk /\ P[22].set = {5}
      /\ P[25].op = "load"
  <2>1. /\ P[17] = Load(source)
        /\ P[18] = Update(source, {24, 28}, {})
        /\ P[20] = Load(sel2)
        /\ P[21] = Update(sel2, {}, {14})
        /\ P[22] = Put(crt1clk, {5})
        /\ P[25] = Load(DpDac)
    BY DpProgram DEF DpSteps
  <2> HIDE DEF P, sel2, crt1clk, dpclk, de0, vlink, source, pcie0, pcie1, handoff
  <2> QED
    BY <2>1, OpFields
<1>5. /\ P[26].op = "store" /\ P[26].r = DpDac /\ P[26].clr = {} /\ P[26].set = {10}
      /\ P[27].op = "put" /\ P[27].r = dpclk /\ P[27].set = {1}
      /\ P[29].op = "put" /\ P[29].r = de0 /\ P[29].set = {5}
  <2>1. /\ P[26] = Update(DpDac, {}, {10})
        /\ P[27] = Put(dpclk, {1})
        /\ P[29] = Put(de0, {5})
    BY DpProgram DEF DpSteps
  <2> HIDE DEF P, sel2, crt1clk, dpclk, de0, vlink, source, pcie0, pcie1, handoff
  <2> QED
    BY <2>1, OpFields
<1> QED
  BY <1>1, <1>2, <1>3, <1>4, <1>5

(* The n-th access of SetMode.                                                *)
LEMMA ModeOps ==
  ASSUME NEW m
  PROVE  LET P == SetMode(m)  timing == At("timing", "gfx")  addr == At("addr", "gfx")
         IN /\ P[1].op = "load"
            /\ P[2].op = "store" /\ P[2].r = Ctrl1 /\ P[2].clr = {1, 2, 7, 8, 9} /\ P[2].set = {8}
            /\ P[3].op = "put" /\ P[3].r = timing /\ P[3].set = {m}
            /\ P[4].op = "put" /\ P[4].r = addr /\ P[4].set = {1}
<1> DEFINE P == SetMode(m)
           timing == At("timing", "gfx")
           addr == At("addr", "gfx")
<1>1. /\ P[1].op = "load"
      /\ P[2].op = "store" /\ P[2].r = Ctrl1 /\ P[2].clr = {1, 2, 7, 8, 9} /\ P[2].set = {8}
      /\ P[3].op = "put" /\ P[3].r = timing /\ P[3].set = {m}
      /\ P[4].op = "put" /\ P[4].r = addr /\ P[4].set = {1}
  <2>1. /\ P[1] = Load(Ctrl1)
        /\ P[2] = Update(Ctrl1, {1, 2, 7, 8, 9}, {8})
        /\ P[3] = Put(timing, {m})
        /\ P[4] = Put(addr, {1})
    BY ModeProgram
  <2> HIDE DEF P, timing, addr
  <2> QED
    BY <2>1, OpFields
<1> QED
  BY <1>1

(* The n-th access of Enable.                                                 *)
LEMMA EnableOps ==
  LET P == Enable  source == At("source", "dp")  cursor == At("cursor", "gfx")
  IN /\ P[1].op = "load"
     /\ P[2].op = "store" /\ P[2].r = Dac /\ P[2].clr = {} /\ P[2].set = {9, 11}
     /\ P[3].op = "load"
     /\ P[4].op = "store" /\ P[4].r = DpDac /\ P[4].clr = {} /\ P[4].set = {10}
     /\ P[5].op = "load"
     /\ P[6].op = "store" /\ P[6].r = source /\ P[6].clr = {} /\ P[6].set = {24, 28}
     /\ P[7].op = "load"
     /\ P[8].op = "store" /\ P[8].r = Ctrl1 /\ P[8].clr = {} /\ P[8].set = {0}
     /\ P[9].op = "put" /\ P[9].r = Ctrl2 /\ P[9].set = {0}
     /\ P[10].op = "put" /\ P[10].r = cursor /\ P[10].set = {1}
<1> DEFINE P == Enable
           source == At("source", "dp")
           cursor == At("cursor", "gfx")
<1>1. /\ P[1].op = "load"
      /\ P[2].op = "store" /\ P[2].r = Dac /\ P[2].clr = {} /\ P[2].set = {9, 11}
      /\ P[3].op = "load"
      /\ P[4].op = "store" /\ P[4].r = DpDac /\ P[4].clr = {} /\ P[4].set = {10}
      /\ P[5].op = "load"
      /\ P[6].op = "store" /\ P[6].r = source /\ P[6].clr = {} /\ P[6].set = {24, 28}
  <2>1. /\ P[1] = Load(Dac)
        /\ P[2] = Update(Dac, {}, {9, 11})
        /\ P[3] = Load(DpDac)
        /\ P[4] = Update(DpDac, {}, {10})
        /\ P[5] = Load(source)
        /\ P[6] = Update(source, {}, {24, 28})
    BY EnableProgram
  <2> HIDE DEF P, source, cursor
  <2> QED
    BY <2>1, OpFields
<1>2. /\ P[7].op = "load"
      /\ P[8].op = "store" /\ P[8].r = Ctrl1 /\ P[8].clr = {} /\ P[8].set = {0}
      /\ P[9].op = "put" /\ P[9].r = Ctrl2 /\ P[9].set = {0}
      /\ P[10].op = "put" /\ P[10].r = cursor /\ P[10].set = {1}
  <2>1. /\ P[7] = Load(Ctrl1)
        /\ P[8] = Update(Ctrl1, {}, {0})
        /\ P[9] = Put(Ctrl2, {0})
        /\ P[10] = Put(cursor, {1})
    BY EnableProgram
  <2> HIDE DEF P, source, cursor
  <2> QED
    BY <2>1, OpFields
<1> QED
  BY <1>1, <1>2

(* The n-th access of StartDPMCU.                                             *)
LEMMA StartOps ==
  LET P == StartDPMCU  ctrl == At("ctrl", "mcu")  int == At("int", "mcu")
  IN /\ P[1].op = "load"
     /\ P[2].op = "store" /\ P[2].r = ctrl /\ P[2].clr = {} /\ P[2].set = {8, 12}
     /\ P[3].op = "put" /\ P[3].r = int /\ P[3].set = 16 .. 23
<1> DEFINE P == StartDPMCU
           ctrl == At("ctrl", "mcu")
           int == At("int", "mcu")
<1>1. /\ P[1].op = "load"
      /\ P[2].op = "store" /\ P[2].r = ctrl /\ P[2].clr = {} /\ P[2].set = {8, 12}
      /\ P[3].op = "put" /\ P[3].r = int /\ P[3].set = 16 .. 23
  <2>1. /\ P[1] = Load(ctrl)
        /\ P[2] = Update(ctrl, {}, {8, 12})
        /\ P[3] = Put(int, 16 .. 23)
    BY ShortPrograms
  <2> HIDE DEF P, ctrl, int
  <2> QED
    BY <2>1, OpFields
<1> QED
  BY <1>1

(* The display's registers that count are distinct ones.                      *)
LEMMA DisplayRegs ==
  LET crt1clk == At("crt1clk", "scu0")  de0 == At("de0", "mcu")  timing == At("timing", "gfx")
      source == At("source", "dp")
  IN /\ {RstA, Clk0, Dac, DpDac, crt1clk, de0, timing, source, Ctrl1, Ctrl2} \subseteq Registers
     /\ RstA \notin {Clk0, Dac, DpDac, crt1clk, de0, timing, source, Ctrl1, Ctrl2}
     /\ Clk0 \notin {Dac, DpDac, crt1clk, de0, timing, source, Ctrl1, Ctrl2}
     /\ Dac \notin {DpDac, crt1clk, de0, timing, source, Ctrl1, Ctrl2}
     /\ DpDac \notin {crt1clk, de0, timing, source, Ctrl1, Ctrl2}
     /\ crt1clk \notin {de0, timing, source, Ctrl1, Ctrl2}
     /\ de0 \notin {timing, source, Ctrl1, Ctrl2}
     /\ timing \notin {source, Ctrl1, Ctrl2} /\ source \notin {Ctrl1, Ctrl2} /\ Ctrl1 # Ctrl2
     /\ \A r \in {At("sel2", "scu0"), At("dpclk", "scu1"), At("vlink", "dp"), At("pcie0", "scu0"),
                  At("pcie1", "scu0"), At("addr", "gfx"), At("cursor", "gfx"), At("ctrl", "mcu"),
                  At("int", "mcu"), RstB} :
          r \notin {RstA, Clk0, Dac, DpDac, crt1clk, de0, timing, source, Ctrl1, Ctrl2}
     /\ RstA[2] = "scu0" /\ Clk0[2] = "scu0" /\ Dac[2] = "scu0" /\ crt1clk[2] = "scu0"
     /\ DpDac[2] = "scu1" /\ de0[2] = "mcu" /\ source[2] = "dp"
     /\ timing[2] = "gfx" /\ Ctrl1[2] = "gfx" /\ Ctrl2[2] = "gfx"
  BY RegistersHas, Distinct

(* When they can be written.                                                  *)
LEMMA DisplayWrites ==
  ASSUME Types
  PROVE  /\ scuKey["scu0"] => /\ Writable(RstA) /\ Writable(Clk0) /\ Writable(Dac)
                              /\ Writable(At("crt1clk", "scu0"))
         /\ scuKey["scu1"] => Writable(DpDac)
         /\ Writable(At("de0", "mcu")) /\ Writable(At("source", "dp"))
         /\ 20 \notin reg[Clk0] /\ 13 \notin reg[RstA] =>
              Writable(At("timing", "gfx")) /\ Writable(Ctrl1) /\ Writable(Ctrl2)
<1>1. /\ Live("mcu", reg) /\ Live("dp", reg)
      /\ Live("gfx", reg) <=> 20 \notin reg[Clk0] /\ 13 \notin reg[RstA]
  BY Lives
<1> QED
  BY <1>1, DisplayRegs DEF Writable, SCUs

(* ConfigureCRT's accesses, one by one, for a mode it can clock.              *)
LEMMA CrtAdvances ==
  ASSUME Types, bootPc["gfx"] # 0, bootCall["gfx"].op = "ConfigureCRT", NEW m, m = bootCall["gfx"].arg, m # Odd,
         NEW n, n = bootPc["gfx"], CrtDone(m, n),
         Protect("gfx") \/ Read32("gfx") \/ Write32("gfx") \/ HCReset("gfx")
  PROVE  n \in 1 .. 23 /\ Len(ProgramOf("gfx", bootCall["gfx"])) = 23 /\ CrtDone(m, n + 1)'
<1> PICK o : o = Op("gfx")
  OBVIOUS
<1> DEFINE P == ProgramOf("gfx", bootCall["gfx"])
           crt1clk == At("crt1clk", "scu0")
           de0 == At("de0", "mcu")
           sel2 == At("sel2", "scu0")
           dpclk == At("dpclk", "scu1")
<1>1. "gfx" \in Packages /\ "scu0" \in SCUs /\ "scu1" \in SCUs
  BY DEF Packages, SCUs
<1>2. n \in 1 .. 23 /\ Len(P) = 23 /\ o = ConfigureCRT(m)[n]
  <2>1. n \in 1 .. Len(P) /\ o = P[n]
    BY <1>1, OpFits
  <2>2. P = ConfigureCRT(m)
    BY ProgramsOf
  <2>3. Len(ConfigureCRT(m)) = 23
    BY CrtProgram
  <2> HIDE DEF P
  <2> QED
    BY <2>1, <2>2, <2>3
<1>3. /\ n \in {1, 5, 15, 18} => o.op = "unlock" /\ o.r = <<"protect", "scu0">>
      /\ n = 10 => o.op = "unlock" /\ o.r = <<"protect", "scu1">>
      /\ n \in {4, 9, 14, 17, 22} => o.op = "lock"
      /\ n \in {6, 11, 20} => o.op = "load"
      /\ n = 2 => o.op = "assert" /\ o.r = Clk0
      /\ n = 3 => o.op = "assert" /\ o.r = RstA
      /\ n = 7 => o.op = "store" /\ o.r = sel2
      /\ n = 8 => o.op = "put" /\ o.r = crt1clk /\ o.set = {m}
      /\ n = 12 => o.op = "store" /\ o.r = DpDac /\ o.clr = {} /\ o.set = {10}
      /\ n = 13 => o.op = "put" /\ o.r = dpclk
  BY <1>2, CrtOps
<1>4. /\ n = 16 => o.op = "clear" /\ o.r = RstA /\ o.set = {13}
      /\ n = 19 => o.op = "clear" /\ o.r = Clk0 /\ o.set = {20}
      /\ n = 21 => o.op = "store" /\ o.r = Dac /\ o.clr = {} /\ o.set = {9, 11}
      /\ n = 23 => o.op = "put" /\ o.r = de0 /\ o.set = {m}
  BY <1>2, CrtOps
<1> HIDE DEF crt1clk, de0, sel2, dpclk, P
<1>5. /\ n \in (2 .. 4) \cup (6 .. 9) \cup (16 .. 17) \cup (19 .. 22) => scuKey["scu0"]
      /\ n \in 11 .. 14 => scuKey["scu1"]
      /\ n > 8 => reg[crt1clk] = {m}
      /\ n > 12 => 10 \in reg[DpDac]
      /\ n > 16 => 13 \notin reg[RstA]
      /\ n > 19 => 20 \notin reg[Clk0]
      /\ n > 21 => {9, 11} \subseteq reg[Dac]
      /\ n > 23 => reg[de0] = {m}
  BY DEF CrtDone, crt1clk, de0
<1>6. /\ n \in {1, 5, 15, 18} => scuKey'["scu0"]
      /\ n = 10 => scuKey'["scu1"]
      /\ n \in {2, 3, 6, 7, 8, 11, 12, 13, 16, 19, 20, 21} => scuKey' = scuKey
  BY <1>1, <1>3, <1>4, Keys
<1>7. /\ n + 1 \in (2 .. 4) \cup (6 .. 9) \cup (16 .. 17) \cup (19 .. 22) => scuKey'["scu0"]
      /\ n + 1 \in 11 .. 14 => scuKey'["scu1"]
  BY <1>2, <1>5, <1>6
<1>8. /\ n \notin {2, 19} => reg'[Clk0] = reg[Clk0]
      /\ n \notin {3, 16} => reg'[RstA] = reg[RstA]
      /\ n # 8 => reg'[crt1clk] = reg[crt1clk]
      /\ n # 12 => reg'[DpDac] = reg[DpDac]
      /\ n # 21 => reg'[Dac] = reg[Dac]
      /\ n # 23 => reg'[de0] = reg[de0]
  BY <1>2, <1>3, <1>4, Writes, DisplayRegs DEF crt1clk, de0, sel2, dpclk
<1>9. /\ n = 8 => reg'[crt1clk] = {m}
      /\ n = 12 => reg'[DpDac] = (tmp["gfx"] \ {}) \cup {10}
      /\ n = 16 => reg'[RstA] = reg[RstA] \ {13}
      /\ n = 19 => reg'[Clk0] = reg[Clk0] \ {20}
      /\ n = 21 => reg'[Dac] = (tmp["gfx"] \ {}) \cup {9, 11}
      /\ n = 23 => reg'[de0] = {m}
  BY <1>3, <1>4, <1>5, Writes, DisplayRegs, DisplayWrites DEF crt1clk, de0
<1>10. /\ n + 1 > 8 => reg'[crt1clk] = {m}
       /\ n + 1 > 12 => 10 \in reg'[DpDac]
       /\ n + 1 > 16 => 13 \notin reg'[RstA]
       /\ n + 1 > 19 => 20 \notin reg'[Clk0]
       /\ n + 1 > 21 => {9, 11} \subseteq reg'[Dac]
       /\ n + 1 > 23 => reg'[de0] = {m}
  BY <1>2, <1>5, <1>8, <1>9
<1> QED
  BY <1>2, <1>7, <1>10 DEF CrtDone, crt1clk, de0, P

(* ConfigureAST2700DP800x600's.                                               *)
LEMMA DpAdvances ==
  ASSUME Types, bootPc["gfx"] # 0, bootCall["gfx"].op = "ConfigureAST2700DP800x600",
         NEW n, n = bootPc["gfx"], DpDone(n),
         Protect("gfx") \/ Read32("gfx") \/ Write32("gfx") \/ HCReset("gfx")
  PROVE  n \in 1 .. 29 /\ Len(ProgramOf("gfx", bootCall["gfx"])) = 29 /\ DpDone(n + 1)'
<1> PICK o : o = Op("gfx")
  OBVIOUS
<1> DEFINE P == ProgramOf("gfx", bootCall["gfx"])
           crt1clk == At("crt1clk", "scu0")
           de0 == At("de0", "mcu")
<1>1. "gfx" \in Packages /\ "scu0" \in SCUs /\ "scu1" \in SCUs
  BY DEF Packages, SCUs
<1>2. n \in 1 .. 29 /\ Len(P) = 29 /\ o = DpSteps[n]
  <2>1. n \in 1 .. Len(P) /\ o = P[n]
    BY <1>1, OpFits
  <2>2. P = DpSteps
    BY ProgramsOf DEF DpSteps
  <2>3. Len(DpSteps) = 29
    BY DpProgram DEF DpSteps
  <2> HIDE DEF P
  <2> QED
    BY <2>1, <2>2, <2>3
<1> DEFINE Others == {At("sel2", "scu0"), At("dpclk", "scu1"), At("vlink", "dp"), At("pcie0", "scu0"),
                      At("pcie1", "scu0"), At("source", "dp"), RstB}
<1>3. /\ n \in {1, 19} => o.op = "unlock" /\ o.r = <<"protect", "scu0">>
      /\ n \in {8, 24} => o.op = "unlock" /\ o.r = <<"protect", "scu1">>
      /\ n \in {7, 11, 23, 28} => o.op = "lock"
      /\ n \in {5, 9, 13, 15, 17, 20, 25} => o.op = "load"
  BY <1>2, DpOps
<1>4. /\ n \in {4, 12, 14, 16, 18, 21, 27} => o.op \in {"put", "store", "clear"} /\ o.r \in Others
  BY <1>2, DpOps
<1>5. /\ n = 2 => o.op = "clear" /\ o.r = Clk0 /\ o.set = {3, 5, 17, 18, 20}
      /\ n = 3 => o.op = "clear" /\ o.r = RstA /\ o.set = {13, 28, 29}
      /\ n = 6 => o.op = "store" /\ o.r = Dac /\ o.clr = {} /\ o.set = {9, 11}
      /\ n \in {10, 26} => o.op = "store" /\ o.r = DpDac /\ o.clr = {} /\ o.set = {10}
      /\ n = 22 => o.op = "put" /\ o.r = crt1clk /\ o.set = {5}
      /\ n = 29 => o.op = "put" /\ o.r = de0 /\ o.set = {5}
  BY <1>2, DpOps
<1>6. \A r \in Others : r \notin {RstA, Clk0, Dac, DpDac, crt1clk, de0}
  BY DisplayRegs
<1> HIDE DEF crt1clk, de0, Others, P
<1>7. /\ n \in (2 .. 7) \cup (20 .. 23) => scuKey["scu0"]
      /\ n \in (9 .. 11) \cup (25 .. 28) => scuKey["scu1"]
      /\ n > 2 => 20 \notin reg[Clk0]
      /\ n > 3 => 13 \notin reg[RstA]
      /\ n > 6 => {9, 11} \subseteq reg[Dac]
      /\ n > 10 => 10 \in reg[DpDac]
      /\ n > 22 => reg[crt1clk] = {5}
      /\ n > 29 => reg[de0] = {5}
  BY DEF DpDone, crt1clk, de0
<1>8. /\ n \in {1, 19} => scuKey'["scu0"]
      /\ n \in {8, 24} => scuKey'["scu1"]
      /\ n \notin {1, 7, 8, 11, 19, 23, 24, 28} => scuKey' = scuKey
  BY <1>1, <1>2, <1>3, <1>4, <1>5, Keys
<1>9. /\ n + 1 \in (2 .. 7) \cup (20 .. 23) => scuKey'["scu0"]
      /\ n + 1 \in (9 .. 11) \cup (25 .. 28) => scuKey'["scu1"]
  BY <1>2, <1>7, <1>8
<1>10. /\ n # 2 => reg'[Clk0] = reg[Clk0]
       /\ n # 3 => reg'[RstA] = reg[RstA]
       /\ n # 6 => reg'[Dac] = reg[Dac]
       /\ n \notin {10, 26} => reg'[DpDac] = reg[DpDac]
       /\ n # 22 => reg'[crt1clk] = reg[crt1clk]
       /\ n # 29 => reg'[de0] = reg[de0]
  BY <1>2, <1>3, <1>4, <1>5, <1>6, Writes, DisplayRegs DEF crt1clk, de0
<1>11. /\ n = 2 => reg'[Clk0] = reg[Clk0] \ {3, 5, 17, 18, 20}
       /\ n = 3 => reg'[RstA] = reg[RstA] \ {13, 28, 29}
       /\ n = 6 => reg'[Dac] = (tmp["gfx"] \ {}) \cup {9, 11}
       /\ n \in {10, 26} => reg'[DpDac] = (tmp["gfx"] \ {}) \cup {10}
       /\ n = 22 => reg'[crt1clk] = {5}
       /\ n = 29 => reg'[de0] = {5}
  BY <1>5, <1>7, Writes, DisplayRegs, DisplayWrites DEF crt1clk, de0
<1>12. /\ n + 1 > 2 => 20 \notin reg'[Clk0]
       /\ n + 1 > 3 => 13 \notin reg'[RstA]
       /\ n + 1 > 6 => {9, 11} \subseteq reg'[Dac]
       /\ n + 1 > 10 => 10 \in reg'[DpDac]
       /\ n + 1 > 22 => reg'[crt1clk] = {5}
       /\ n + 1 > 29 => reg'[de0] = {5}
  BY <1>2, <1>7, <1>10, <1>11
<1> QED
  BY <1>2, <1>9, <1>12 DEF DpDone, crt1clk, de0, P

(* SetMode's.                                                                 *)
LEMMA ModeAdvances ==
  ASSUME Types, bootPc["gfx"] # 0, bootCall["gfx"].op = "SetMode", NEW m, m = bootCall["gfx"].arg,
         NEW n, n = bootPc["gfx"], 20 \notin reg[Clk0], 13 \notin reg[RstA],
         Protect("gfx") \/ Read32("gfx") \/ Write32("gfx") \/ HCReset("gfx")
  PROVE  /\ n \in 1 .. 4 /\ Len(ProgramOf("gfx", bootCall["gfx"])) = 4
         /\ \A x : Clocked(x) => Clocked(x)'
         /\ n = 3 => Timed(m)'
         /\ n # 3 => (Timed(m) => Timed(m)')
<1> PICK o : o = Op("gfx")
  OBVIOUS
<1> DEFINE P == ProgramOf("gfx", bootCall["gfx"])
           timing == At("timing", "gfx")
<1>1. n \in 1 .. 4 /\ Len(P) = 4 /\ o = SetMode(m)[n]
  <2>1. n \in 1 .. Len(P) /\ o = P[n]
    BY OpFits DEF Packages
  <2>2. P = SetMode(m)
    BY ProgramsOf
  <2>3. Len(SetMode(m)) = 4
    BY ModeProgram
  <2> HIDE DEF P
  <2> QED
    BY <2>1, <2>2, <2>3
<1>2. /\ n = 1 => o.op = "load"
      /\ n = 2 => o.r = Ctrl1
      /\ n = 3 => o.op = "put" /\ o.r = timing /\ o.set = {m}
      /\ n = 4 => o.r = At("addr", "gfx")
  BY <1>1, ModeOps
<1>3. \A r \in {RstA, Clk0, Dac, DpDac, At("crt1clk", "scu0"), At("de0", "mcu")} : reg'[r] = reg[r]
  BY <1>1, <1>2, Writes, DisplayRegs
<1>4. n # 3 => reg'[timing] = reg[timing]
  BY <1>1, <1>2, Writes, DisplayRegs
<1>5. n = 3 => reg'[timing] = {m}
  BY <1>2, Writes, DisplayRegs, DisplayWrites
<1>6. \A x : Clocked(x) => Clocked(x)'
  BY <1>3 DEF Clocked
<1> QED
  BY <1>1, <1>4, <1>5, <1>6 DEF Timed

(* Enable's: it does not unlock the SCUs, whose bits are set by then.         *)
LEMMA EnableAdvances ==
  ASSUME Types, bootPc["gfx"] # 0, bootCall["gfx"].op = "Enable",
         NEW n, n = bootPc["gfx"], 20 \notin reg[Clk0], 13 \notin reg[RstA], EnableDone(n),
         Protect("gfx") \/ Read32("gfx") \/ Write32("gfx") \/ HCReset("gfx")
  PROVE  /\ n \in 1 .. 10 /\ Len(ProgramOf("gfx", bootCall["gfx"])) = 10
         /\ \A x : Clocked(x) => Clocked(x)'
         /\ \A x : Timed(x) => Timed(x)'
         /\ On => On'
         /\ EnableDone(n + 1)'
<1> PICK o : o = Op("gfx")
  OBVIOUS
<1> DEFINE P == ProgramOf("gfx", bootCall["gfx"])
           source == At("source", "dp")
<1>1. n \in 1 .. 10 /\ Len(P) = 10 /\ o = Enable[n]
  <2>1. n \in 1 .. Len(P) /\ o = P[n]
    BY OpFits DEF Packages
  <2>2. P = Enable
    BY ProgramsOf
  <2>3. Len(Enable) = 10
    BY EnableProgram
  <2> HIDE DEF P
  <2> QED
    BY <2>1, <2>2, <2>3
<1>2. /\ n \in {1, 3, 5, 7} => o.op = "load"
      /\ n = 2 => o.op = "store" /\ o.r = Dac /\ o.clr = {} /\ o.set = {9, 11}
      /\ n = 4 => o.op = "store" /\ o.r = DpDac /\ o.clr = {} /\ o.set = {10}
      /\ n = 6 => o.op = "store" /\ o.r = source /\ o.clr = {} /\ o.set = {24, 28}
      /\ n = 8 => o.op = "store" /\ o.r = Ctrl1 /\ o.clr = {} /\ o.set = {0}
      /\ n = 9 => o.op = "put" /\ o.r = Ctrl2 /\ o.set = {0}
      /\ n = 10 => o.r = At("cursor", "gfx")
  BY <1>1, EnableOps
<1>3. \A r \in {RstA, Clk0, At("crt1clk", "scu0"), At("de0", "mcu"), At("timing", "gfx")} : reg'[r] = reg[r]
  BY <1>1, <1>2, Writes, DisplayRegs
<1>4. /\ n # 2 => reg'[Dac] = reg[Dac]
      /\ n # 4 => reg'[DpDac] = reg[DpDac]
      /\ n # 6 => reg'[source] = reg[source]
      /\ n # 8 => reg'[Ctrl1] = reg[Ctrl1]
      /\ n # 9 => reg'[Ctrl2] = reg[Ctrl2]
  BY <1>1, <1>2, Writes, DisplayRegs
<1>5. /\ n = 2 => reg'[Dac] = reg[Dac] \/ reg'[Dac] = (tmp["gfx"] \ {}) \cup {9, 11}
      /\ n = 4 => reg'[DpDac] = reg[DpDac] \/ reg'[DpDac] = (tmp["gfx"] \ {}) \cup {10}
  BY <1>2, Writes, DisplayRegs
<1>6. /\ n = 6 => reg'[source] = (tmp["gfx"] \ {}) \cup {24, 28}
      /\ n = 8 => reg'[Ctrl1] = (tmp["gfx"] \ {}) \cup {0}
      /\ n = 9 => reg'[Ctrl2] = {0}
  BY <1>2, Writes, DisplayRegs, DisplayWrites
<1>7. ({9, 11} \subseteq reg[Dac] => {9, 11} \subseteq reg'[Dac]) /\ (10 \in reg[DpDac] => 10 \in reg'[DpDac])
  BY <1>4, <1>5
<1>8. \A x : Clocked(x) => Clocked(x)'
  BY <1>3, <1>7 DEF Clocked
<1>9. \A x : Timed(x) => Timed(x)'
  BY <1>3 DEF Timed
<1>10. On => On'
  BY <1>4, <1>6 DEF On
<1>11. /\ n > 6 => {24, 28} \subseteq reg[source]
       /\ n > 8 => 0 \in reg[Ctrl1]
       /\ n > 9 => reg[Ctrl2] = {0}
  BY DEF EnableDone
<1> HIDE DEF source, P
<1>12. /\ n + 1 > 6 => {24, 28} \subseteq reg'[source]
       /\ n + 1 > 8 => 0 \in reg'[Ctrl1]
       /\ n + 1 > 9 => reg'[Ctrl2] = {0}
  BY <1>1, <1>4, <1>6, <1>11
<1>13. EnableDone(n + 1)'
  BY <1>12 DEF EnableDone, source
<1> QED
  BY <1>1, <1>8, <1>9, <1>10, <1>13 DEF P

(* StartDPMCU's.                                                              *)
LEMMA StartKeeps ==
  ASSUME Types, bootPc["gfx"] # 0, bootCall["gfx"].op = "StartDPMCU",
         Protect("gfx") \/ Read32("gfx") \/ Write32("gfx") \/ HCReset("gfx")
  PROVE  (\A x : Clocked(x) => Clocked(x)') /\ (\A x : Timed(x) => Timed(x)') /\ (On => On')
<1> PICK o : o = Op("gfx")
  OBVIOUS
<1> PICK n : n = bootPc["gfx"]
  OBVIOUS
<1> DEFINE P == ProgramOf("gfx", bootCall["gfx"])
<1>1. n \in 1 .. 3 /\ o = StartDPMCU[n]
  <2>1. n \in 1 .. Len(P) /\ o = P[n]
    BY OpFits DEF Packages
  <2>2. P = StartDPMCU
    BY ProgramsOf
  <2>3. Len(StartDPMCU) = 3
    BY ShortPrograms
  <2> HIDE DEF P
  <2> QED
    BY <2>1, <2>2, <2>3
<1>2. (n = 1 /\ o.op = "load") \/ o.r \in {At("ctrl", "mcu"), At("int", "mcu")}
  BY <1>1, StartOps
<1>3. \A r \in {RstA, Clk0, Dac, DpDac, At("crt1clk", "scu0"), At("de0", "mcu"), At("timing", "gfx"),
                At("source", "dp"), Ctrl1, Ctrl2} : reg'[r] = reg[r]
  BY <1>2, Writes, DisplayRegs
<1> QED
  BY <1>3 DEF Clocked, Timed, On

(* What the display's invariant depends on when it runs no call alone.        *)
LEMMA GfxFrame ==
  ASSUME Types, GfxInv, ~Alone("gfx")', bootPc'["gfx"] = bootPc["gfx"], screen' = screen,
         \A x \in Registers : Owns("gfx", x) => reg'[x] = reg[x],
         20 \in reg'[Clk0] => 20 \in reg[Clk0]
  PROVE  GfxInv'
<1>1. \A r \in {RstA, Dac, DpDac, At("crt1clk", "scu0"), At("de0", "mcu"), At("timing", "gfx"),
                At("source", "dp"), Ctrl1, Ctrl2} : reg'[r] = reg[r]
  <2>1. \A r \in {RstA, Dac, DpDac, At("crt1clk", "scu0"), At("de0", "mcu"), At("timing", "gfx"),
                  At("source", "dp"), Ctrl1, Ctrl2} : Owns("gfx", r)
    BY Distinct DEF Owns
  <2> QED
    BY <2>1, DisplayRegs
<1>2. ASSUME NEW m, Clocked(m) PROVE Clocked(m)'
  BY <1>1, <1>2 DEF Clocked
<1>3. ASSUME NEW m, Timed(m) PROVE Timed(m)'
  BY <1>1, <1>3 DEF Timed
<1>4. On => On'
  BY <1>1 DEF On
<1>5. ASSUME bootPc'["gfx"] = 0 PROVE ScreenInv'
  <2>1. /\ screen[1] # "off" => Clocked(screen[2])
        /\ screen[1] \in {"timed", "on"} => Timed(screen[2])
        /\ screen[1] = "on" => On
    BY <1>5 DEF GfxInv, ScreenInv, Runs
  <2> PICK z : z = screen
    OBVIOUS
  <2>2. /\ z[1] # "off" => Clocked(z[2])'
        /\ z[1] \in {"timed", "on"} => Timed(z[2])'
        /\ z[1] = "on" => On'
    BY <1>2, <1>3, <1>4, <2>1
  <2>3. screen' = z
    OBVIOUS
  <2> QED
    BY <2>2, <2>3 DEF ScreenInv
<1> QED
  BY <1>5 DEF GfxInv

(* At power-on.                                                               *)
LEMMA InitGfx == BootInit => GfxInv
<1> SUFFICES ASSUME BootInit PROVE GfxInv
  OBVIOUS
<1>1. bootPc["gfx"] = 0 /\ screen[1] = "off"
  BY DEF BootInit, Packages
<1> QED
  BY <1>1 DEF GfxInv, ScreenInv, Alone

(* A call begins.                                                             *)
LEMMA GfxBegin ==
  ASSUME Types, GfxInv, NEW k \in Packages, NEW c \in Calls(k), BeginCall(k, c)
  PROVE  GfxInv'
<1>1. /\ bootPc[k] = 0 /\ bootPc' = [bootPc EXCEPT ![k] = 1] /\ bootCall' = [bootCall EXCEPT ![k] = c]
      /\ overlapped' = IF Busy = {} THEN overlapped \ {k} ELSE overlapped \cup Busy \cup {k}
      /\ reg' = reg /\ screen' = screen
  BY Begins, Zenon
<1>2. bootPc \in [Packages -> Nat] /\ DOMAIN bootCall = Packages /\ "gfx" \in Packages
  BY DEF Types, Packages
<1>3. CASE k # "gfx"
  <2>1. bootPc'["gfx"] = bootPc["gfx"]
    BY <1>1, <1>2, <1>3, Zenon
  <2>2. bootPc["gfx"] # 0 => "gfx" \in overlapped'
    BY <1>1, <1>2 DEF Busy
  <2>3. ~Alone("gfx")'
    BY <2>1, <2>2 DEF Alone
  <2> QED
    BY <1>1, <2>1, <2>3, GfxFrame
<1>4. CASE k = "gfx"
  <2>1. bootPc["gfx"] = 0 /\ bootPc'["gfx"] = 1
    BY <1>1, <1>2, <1>4
  <2>2. /\ screen[1] # "off" => Clocked(screen[2])
        /\ screen[1] \in {"timed", "on"} => Timed(screen[2])
        /\ screen[1] = "on" => On
    BY <2>1 DEF GfxInv, ScreenInv, Runs
  <2>3. ScreenInv'
    BY <1>1, <2>2 DEF ScreenInv, Clocked, Timed, On
  <2>4. (\A m : CrtDone(m, 1)') /\ DpDone(1)' /\ EnableDone(1)'
    BY DEF CrtDone, DpDone, EnableDone
  <2> PICK n, m : n = bootPc'["gfx"] /\ m = bootCall'["gfx"].arg
    OBVIOUS
  <2>5. n = 1
    BY <2>1
  <2>6. CrtDone(m, n)' /\ DpDone(n)' /\ EnableDone(n)' /\ ~(n > 3)
    BY <2>4, <2>5
  <2>7. CrtDone(bootCall["gfx"].arg, bootPc["gfx"])' /\ DpDone(bootPc["gfx"])' /\ EnableDone(bootPc["gfx"])'
    BY <2>6, Zenon
  <2>8. ~(bootPc["gfx"] > 3)'
    BY <2>6
  <2> QED
    BY <2>3, <2>7, <2>8 DEF GfxInv
<1> QED
  BY <1>3, <1>4

(* Another package's access.                                                  *)
LEMMA GfxOther ==
  ASSUME Types, GfxInv, NEW k \in Packages, k # "gfx",
         Protect(k) \/ Read32(k) \/ Write32(k) \/ HCReset(k)
  PROVE  GfxInv'
<1>1. "gfx" \in Packages
  BY DEF Packages
<1>2. bootPc[k] # 0 /\ overlapped' = overlapped /\ bootPc'["gfx"] = bootPc["gfx"] /\ screen' = screen
  BY <1>1, Accesses, Zenon
<1>3. ~Alone("gfx")
  BY <1>1, <1>2, AloneOther
<1>4. ~Alone("gfx")'
  BY <1>2, <1>3 DEF Alone
<1>5. \A x \in Registers : Owns("gfx", x) => reg'[x] = reg[x]
  BY <1>1, OthersKeep
<1>6. 20 \in reg'[Clk0] => 20 \in reg[Clk0]
  BY SharedKeep
<1> QED
  BY <1>2, <1>4, <1>5, <1>6, GfxFrame

(* What the display shows when a call that was alone returns.                 *)
LEMMA ScreenOf ==
  ASSUME NEW c
  PROVE  /\ "gfx" \in overlapped => Screen(c)[1] = "off"
         /\ "gfx" \notin overlapped =>
              /\ c.op = "ConfigureCRT" /\ c.arg # Odd => Screen(c) = <<"clocked", c.arg>>
              /\ c.op = "ConfigureAST2700DP800x600" /\ c.arg # Odd => Screen(c) = <<"clocked", c.arg>>
              /\ c.op = "SetMode" =>
                   Screen(c) = IF screen[1] # "off" /\ screen[2] = c.arg
                               THEN <<"timed", c.arg>> ELSE <<"off", 0>>
              /\ c.op = "Enable" =>
                   Screen(c) = IF screen[1] = "timed" THEN <<"on", screen[2]>> ELSE screen
              /\ c.op = "StartDPMCU" => Screen(c) = screen
              /\ c.op = "ConfigureCRT" /\ c.arg = Odd => Screen(c) = <<"off", 0>>
              /\ c.op \in {"ConfigureCRTOnly", "EnableAST2700Display", "Disable", "SanitizeCRT"} =>
                   Screen(c) = <<"off", 0>>
<1>1. "gfx" \in overlapped => Screen(c)[1] = "off"
  BY DEF Screen
<1>2. ASSUME "gfx" \notin overlapped
      PROVE  /\ c.op = "ConfigureCRT" /\ c.arg # Odd => Screen(c) = <<"clocked", c.arg>>
             /\ c.op = "ConfigureAST2700DP800x600" /\ c.arg # Odd => Screen(c) = <<"clocked", c.arg>>
  BY <1>2 DEF Screen
<1>3. ASSUME "gfx" \notin overlapped, c.op = "SetMode"
      PROVE  Screen(c) = IF screen[1] # "off" /\ screen[2] = c.arg
                         THEN <<"timed", c.arg>> ELSE <<"off", 0>>
  BY <1>3 DEF Screen
<1>4. ASSUME "gfx" \notin overlapped, c.op = "Enable"
      PROVE  Screen(c) = IF screen[1] = "timed" THEN <<"on", screen[2]>> ELSE screen
  BY <1>4 DEF Screen
<1>5. ASSUME "gfx" \notin overlapped, c.op = "StartDPMCU" PROVE Screen(c) = screen
  BY <1>5 DEF Screen
<1>6. ASSUME "gfx" \notin overlapped
      PROVE  /\ c.op = "ConfigureCRT" /\ c.arg = Odd => Screen(c) = <<"off", 0>>
             /\ c.op \in {"ConfigureCRTOnly", "EnableAST2700Display", "Disable", "SanitizeCRT"} =>
                  Screen(c) = <<"off", 0>>
  BY <1>6 DEF Screen
<1> QED
  BY <1>1, <1>2, <1>3, <1>4, <1>5, <1>6

(* Its own.                                                                   *)
LEMMA GfxOwn ==
  ASSUME Types, GfxInv,
         Protect("gfx") \/ Read32("gfx") \/ Write32("gfx") \/ HCReset("gfx")
  PROVE  GfxInv'
<1> PICK n : n = bootPc["gfx"]
  OBVIOUS
<1> PICK c : c = bootCall["gfx"]
  OBVIOUS
<1> PICK m : m = c.arg
  OBVIOUS
<1> PICK N : N = Len(ProgramOf("gfx", bootCall["gfx"]))
  OBVIOUS
<1> PICK z : z = screen
  OBVIOUS
<1> PICK y : y = Screen(c)
  OBVIOUS
<1>1. "gfx" \in Packages
  BY DEF Packages
<1>2. n # 0 /\ overlapped' = overlapped
  BY <1>1, Accesses, Zenon
<1>3. \/ n # N /\ bootPc'["gfx"] = n + 1 /\ bootCall'["gfx"] = c /\ screen' = z
      \/ n = N /\ bootPc'["gfx"] = 0 /\ screen' = y
  BY <1>1, Accesses, Zenon
<1>4. c \in Calls("gfx") /\ n \in Nat \ {0}
  BY <1>1, <1>2, OpFits
<1>5. c.op \in {"ConfigureCRT", "ConfigureCRTOnly", "SetMode", "EnableAST2700Display",
                "ConfigureAST2700DP800x600", "StartDPMCU", "Enable", "Disable", "SanitizeCRT"}
  BY <1>4, CallsOf
<1>6. bootPc'["gfx"] = 0 => ~Alone("gfx")'
  BY DEF Alone
<1>7. CASE "gfx" \in overlapped
  <2>1. ~Alone("gfx")'
    BY <1>2, <1>7 DEF Alone
  <2>2. bootPc'["gfx"] = 0 => screen'[1] = "off"
    BY <1>3, <1>4, <1>7, ScreenOf
  <2>3. bootPc'["gfx"] = 0 => ScreenInv'
    BY <2>2 DEF ScreenInv
  <2> QED
    BY <2>1, <2>3 DEF GfxInv
<1>8. CASE "gfx" \notin overlapped
  <2>1. Alone("gfx")
    BY <1>2, <1>8 DEF Alone
  <2>2. /\ z[1] # "off" /\ c.op \in {"SetMode", "Enable", "StartDPMCU"} => Clocked(z[2])
        /\ z[1] \in {"timed", "on"} /\ c.op \in {"Enable", "StartDPMCU"} => Timed(z[2])
        /\ z[1] = "on" /\ c.op \in {"Enable", "StartDPMCU"} => On
        /\ c.op = "ConfigureCRT" /\ m # Odd => CrtDone(m, n)
        /\ c.op = "ConfigureAST2700DP800x600" => DpDone(n)
        /\ c.op = "SetMode" /\ z[1] # "off" /\ n > 3 => Timed(m)
        /\ c.op = "Enable" /\ z[1] # "off" => EnableDone(n)
    <3>1. ScreenInv
      BY <2>1 DEF GfxInv
    <3>2. /\ z[1] # "off" /\ c.op \in {"SetMode", "Enable", "StartDPMCU"} => Clocked(z[2])
          /\ z[1] \in {"timed", "on"} /\ c.op \in {"Enable", "StartDPMCU"} => Timed(z[2])
          /\ z[1] = "on" /\ c.op \in {"Enable", "StartDPMCU"} => On
      BY <3>1 DEF ScreenInv, Runs
    <3>3. /\ c.op = "ConfigureCRT" /\ m # Odd => CrtDone(m, n)
          /\ c.op = "ConfigureAST2700DP800x600" => DpDone(n)
          /\ c.op = "SetMode" /\ z[1] # "off" /\ n > 3 => Timed(m)
          /\ c.op = "Enable" /\ z[1] # "off" => EnableDone(n)
      BY <2>1 DEF GfxInv
    <3> QED
      BY <3>2, <3>3
  <2> DEFINE Stays == /\ z[1] # "off" /\ c.op \in {"SetMode", "Enable", "StartDPMCU"} => Clocked(z[2])'
                      /\ z[1] \in {"timed", "on"} /\ c.op \in {"Enable", "StartDPMCU"} => Timed(z[2])'
                      /\ z[1] = "on" /\ c.op \in {"Enable", "StartDPMCU"} => On'
             Goes == /\ c.op = "ConfigureCRT" /\ m # Odd => CrtDone(m, n + 1)'
                     /\ c.op = "ConfigureAST2700DP800x600" => DpDone(n + 1)'
                     /\ c.op = "SetMode" /\ z[1] # "off" /\ n + 1 > 3 => Timed(m)'
                     /\ c.op = "Enable" /\ z[1] # "off" => EnableDone(n + 1)'
             Shows(x) == /\ x[1] # "off" => Clocked(x[2])'
                         /\ x[1] \in {"timed", "on"} => Timed(x[2])'
                         /\ x[1] = "on" => On'
  <2>3. Stays /\ Goes /\ (n = N => Shows(y))
    <3>1. CASE c.op = "ConfigureCRT" /\ m # Odd
      <4>1. n \in 1 .. 23 /\ N = 23 /\ CrtDone(m, n + 1)'
        BY <1>2, <2>2, <3>1, CrtAdvances
      <4>2. n = N => Clocked(m)'
        <5> PICK k : k = n + 1
          OBVIOUS
        <5>1. CrtDone(m, k)'
          BY <4>1, Zenon
        <5>2. n = N => k = 24
          BY <4>1
        <5> QED
          BY <5>1, <5>2 DEF CrtDone, Clocked
      <4>3. y = <<"clocked", m>>
        BY <1>8, <3>1, ScreenOf
      <4>4. Stays /\ Goes
        BY <3>1, <4>1
      <4>5. n = N => Shows(<<"clocked", m>>)
        BY <4>2
      <4> HIDE DEF Stays, Goes, Shows
      <4> QED
        BY <4>3, <4>4, <4>5, Zenon
    <3>2. CASE c.op = "ConfigureAST2700DP800x600"
      <4>1. n \in 1 .. 29 /\ N = 29 /\ DpDone(n + 1)'
        BY <1>2, <2>2, <3>2, DpAdvances
      <4>2. m = 5 /\ 5 # Odd
        BY <1>4, <3>2, CallsOf DEF Odd
      <4>3. n = N => Clocked(5)'
        <5> PICK k : k = n + 1
          OBVIOUS
        <5>1. DpDone(k)'
          BY <4>1, Zenon
        <5>2. n = N => k = 30
          BY <4>1
        <5> QED
          BY <5>1, <5>2 DEF DpDone, Clocked
      <4>4. y = <<"clocked", 5>>
        BY <1>8, <3>2, <4>2, ScreenOf
      <4>5. Stays /\ Goes
        BY <3>2, <4>1
      <4>6. n = N => Shows(<<"clocked", 5>>)
        BY <4>3
      <4> HIDE DEF Stays, Goes, Shows
      <4> QED
        BY <4>4, <4>5, <4>6, Zenon
    <3>3. CASE c.op = "SetMode" /\ z[1] # "off"
      <4>1. Clocked(z[2]) /\ 20 \notin reg[Clk0] /\ 13 \notin reg[RstA]
        BY <2>2, <3>3 DEF Clocked
      <4>2. /\ n \in 1 .. 4 /\ N = 4 /\ Clocked(z[2])'
            /\ n = 3 => Timed(m)'
            /\ n # 3 => (Timed(m) => Timed(m)')
        BY <1>2, <3>3, <4>1, ModeAdvances
      <4>3. n + 1 > 3 => Timed(m)'
        BY <2>2, <3>3, <4>2
      <4>4. Stays /\ Goes
        BY <3>3, <4>2, <4>3
      <4>5. n = N => Timed(m)'
        BY <4>2, <4>3
      <4>6. y = IF z[2] = m THEN <<"timed", m>> ELSE <<"off", 0>>
        BY <1>8, <3>3, ScreenOf
      <4>7. n = N => Shows(y)
        <5>1. CASE z[2] = m
          <6>1. Clocked(m)'
            BY <4>2, <5>1, Zenon
          <6>2. n = N => Shows(<<"timed", m>>)
            BY <4>5, <6>1
          <6>3. y = <<"timed", m>>
            BY <4>6, <5>1
          <6> HIDE DEF Shows
          <6> QED
            BY <6>2, <6>3, Zenon
        <5>2. CASE z[2] # m
          <6>1. y = <<"off", 0>>
            BY <4>6, <5>2
          <6>2. Shows(<<"off", 0>>)
            OBVIOUS
          <6> HIDE DEF Shows
          <6> QED
            BY <6>1, <6>2, Zenon
        <5> QED
          BY <5>1, <5>2
      <4> QED
        BY <4>4, <4>7
    <3>4. CASE c.op = "Enable" /\ z[1] # "off"
      <4>1. Clocked(z[2]) /\ 20 \notin reg[Clk0] /\ 13 \notin reg[RstA]
        BY <2>2, <3>4 DEF Clocked
      <4>2. /\ n \in 1 .. 10 /\ N = 10 /\ Clocked(z[2])'
            /\ Timed(z[2]) => Timed(z[2])'
            /\ On => On'
            /\ EnableDone(n + 1)'
        BY <1>2, <2>2, <3>4, <4>1, EnableAdvances
      <4>3. n = N => On'
        <5> PICK k : k = n + 1
          OBVIOUS
        <5>1. EnableDone(k)'
          BY <4>2, Zenon
        <5>2. n = N => k = 11
          BY <4>2
        <5> QED
          BY <5>1, <5>2 DEF EnableDone, On
      <4>4. Stays /\ Goes
        BY <2>2, <3>4, <4>2
      <4>5. y = IF z[1] = "timed" THEN <<"on", z[2]>> ELSE z
        BY <1>8, <3>4, ScreenOf
      <4>6. n = N => Shows(y)
        <5>1. CASE z[1] = "timed"
          <6>1. n = N => Shows(<<"on", z[2]>>)
            BY <2>2, <3>4, <4>2, <4>3, <5>1
          <6>2. y = <<"on", z[2]>>
            BY <4>5, <5>1
          <6> HIDE DEF Shows
          <6> QED
            BY <6>1, <6>2, Zenon
        <5>2. CASE z[1] # "timed"
          <6>1. Shows(z)
            BY <3>4, <4>4
          <6>2. y = z
            BY <4>5, <5>2
          <6> HIDE DEF Shows
          <6> QED
            BY <6>1, <6>2, Zenon
        <5> QED
          BY <5>1, <5>2
      <4> QED
        BY <4>4, <4>6
    <3>5. CASE c.op = "StartDPMCU"
      <4>1. (\A x : Clocked(x) => Clocked(x)') /\ (\A x : Timed(x) => Timed(x)') /\ (On => On')
        BY <1>2, <3>5, StartKeeps
      <4>2. Stays /\ Goes
        BY <2>2, <3>5, <4>1
      <4>3. Shows(z)
        BY <3>5, <4>2
      <4>4. y = z
        BY <1>8, <3>5, ScreenOf
      <4> HIDE DEF Stays, Goes, Shows
      <4> QED
        BY <4>2, <4>3, <4>4, Zenon
    <3>6. CASE \/ c.op = "ConfigureCRT" /\ m = Odd
               \/ c.op \in {"SetMode", "Enable"} /\ z[1] = "off"
               \/ c.op \in {"ConfigureCRTOnly", "EnableAST2700Display", "Disable", "SanitizeCRT"}
      <4>1. Stays /\ Goes
        BY <3>6
      <4>2. y[1] = "off"
        BY <1>8, <3>6, ScreenOf
      <4>3. Shows(y)
        BY <4>2
      <4> QED
        BY <4>1, <4>3
    <3> HIDE DEF Stays, Goes, Shows
    <3> QED
      BY <1>5, <3>1, <3>2, <3>3, <3>4, <3>5, <3>6
  <2>4. CASE n # N
    <3>1. bootPc'["gfx"] = n + 1 /\ bootCall'["gfx"] = c /\ screen' = z /\ bootPc'["gfx"] # 0
      BY <1>3, <1>4, <2>4
    <3>2. ScreenInv'
      BY <2>3, <3>1 DEF ScreenInv, Runs
    <3> PICK k : k = n + 1
      OBVIOUS
    <3>3. /\ c.op = "ConfigureCRT" /\ m # Odd => CrtDone(m, k)'
          /\ c.op = "ConfigureAST2700DP800x600" => DpDone(k)'
          /\ c.op = "SetMode" /\ z[1] # "off" /\ k > 3 => Timed(m)'
          /\ c.op = "Enable" /\ z[1] # "off" => EnableDone(k)'
      BY <2>3, Zenon
    <3>4. bootPc'["gfx"] = k /\ bootCall'["gfx"].arg = m
      BY <3>1
    <3> QED
      BY <3>1, <3>2, <3>3, <3>4 DEF GfxInv
  <2>5. CASE n = N
    <3>1. bootPc'["gfx"] = 0 /\ screen' = y
      BY <1>3, <1>4, <2>5
    <3>2. Shows(y)
      BY <2>3, <2>5
    <3>3. ScreenInv'
      BY <3>1, <3>2 DEF ScreenInv
    <3> QED
      BY <1>6, <3>1, <3>3 DEF GfxInv
  <2> QED
    BY <2>4, <2>5
<1> QED
  BY <1>7, <1>8

(* Every step.                                                                *)
LEMMA NextGfx == Types /\ GfxInv /\ [BootNext]_bootVars => GfxInv'
<1> SUFFICES ASSUME Types, GfxInv, [BootNext]_bootVars PROVE GfxInv'
  OBVIOUS
<1>1. CASE UNCHANGED bootVars
  BY <1>1 DEF bootVars, GfxInv, ScreenInv, Runs, Alone, CrtDone, DpDone, EnableDone, Clocked, Timed, On
<1>2. ASSUME NEW k \in Packages, NEW c \in Calls(k), BeginCall(k, c) PROVE GfxInv'
  BY <1>2, GfxBegin
<1>3. ASSUME NEW k \in Packages, Protect(k) \/ Read32(k) \/ Write32(k) \/ HCReset(k)
      PROVE  GfxInv'
  BY <1>3, GfxOther, GfxOwn
<1> QED
  BY <1>1, <1>2, <1>3 DEF BootNext

(* When the work that leaves no trace is done.                                *)
LEMMA WorkFromInv == Types /\ NetInv /\ GfxInv => UntracedWork
<1> SUFFICES ASSUME Types, NetInv, GfxInv PROVE UntracedWork
  OBVIOUS
<1>1. ASSUME mac, "net" \notin overlapped PROVE MacUp
  <2>1. NetDone(11)
    BY <1>1 DEF NetInv
  <2> QED
    BY <2>1, Distinct DEF NetDone, MacUp
<1>2. ASSUME screen[1] = "on", bootPc["gfx"] = 0 PROVE Shown(screen[2])
  <2>1. Clocked(screen[2]) /\ Timed(screen[2]) /\ On
    BY <1>2 DEF GfxInv, ScreenInv, Runs
  <2>2. Live("gfx", reg)
    BY <2>1, Lives DEF Clocked
  <2> QED
    BY <2>1, <2>2, Distinct DEF Shown, Clocked, Timed, On
<1> QED
  BY <1>1, <1>2 DEF UntracedWork

(* What the bring-ups that leave no trace set up is there once they return,   *)
(* when no other package's call met theirs, and later calls of the other      *)
(* packages leave it.                                                         *)
THEOREM WorkIsDone == BootSpec => []UntracedWork
<1>1. BootInit => Types /\ NetInv /\ GfxInv
  BY InitTypes, InitNet, InitGfx
<1>2. Types /\ NetInv /\ GfxInv /\ [BootNext]_bootVars => (Types /\ NetInv /\ GfxInv)'
  BY NextTypes, NextNet, NextGfx
<1> QED
  BY <1>1, <1>2, WorkFromInv, PTL DEF BootSpec

=============================================================================
