------------------------------ MODULE EhciPort ------------------------------
(* hal/usb/ehci: PollConnect, clearChange, resetOnce and ResetPort against the *)
(* root port's PORTSC, which mixes write-1-to-clear, read-write and status     *)
(* bits, while the user plugs devices and the controller drives the handshake. *)
EXTENDS Integers

CONSTANTS MaxCalls, MaxPlugs    \* bounds: calls, and plugs, unplugs and port errors

VARIABLES
  pc, ps,           \* the driver's next step and the PORTSC value it last read
  attempt, after,   \* ResetPort's loop and the After it returns
  portsc, ending,   \* PORTSC's bits; PR was released and still reads 1
  dev,              \* the device in the receptacle: none, full or high speed
  calls, plugs,
  changed, stable   \* history: (dis)connected since clearChange; nothing since the call

drv == <<pc, ps, attempt, after, calls>>
port == <<portsc, ending, dev, plugs>>
vars == <<drv, port, changed, stable>>

RWC == {"CSC", "PEC", "OCC"}
Bits == RWC \cup {"CCS", "PED", "PR", "PP"}

Init ==
  /\ pc = "idle" /\ ps = {} /\ attempt = 0 /\ after = {} /\ calls = 0
  /\ \E d \in {"none", "fs", "hs"} :
        dev = d /\ portsc = IF d = "none" THEN {"PP"} ELSE {"PP", "CCS", "CSC"}
  /\ ending = FALSE /\ plugs = 0 /\ changed = FALSE /\ stable = FALSE

-----------------------------------------------------------------------------
(* A write of PORTSC: a change bit is acknowledged by 1, Port Enable can only  *)
(* be turned off, and PR is driven until the end of the reset once released.   *)
WritePort(v) ==
  /\ portsc' = ((portsc \ (RWC \cap v)) \ ({"PED", "PP", "PR"} \ v)) \cup (v \cap {"PR", "PP"})
  /\ ending' = ("PR" \in portsc /\ "PR" \notin v)
  /\ UNCHANGED <<dev, plugs>>

Goto(l) == pc' = l
Read(l) == ps' = portsc /\ Goto(l) /\ UNCHANGED <<attempt, after, calls, port, changed, stable>>

(* PollConnect returns the last of its samples.                                *)
PollConnect ==
  /\ pc = "idle" /\ calls < MaxCalls
  /\ after' = portsc /\ calls' = calls + 1
  /\ UNCHANGED <<pc, ps, attempt, port, changed, stable>>

(* ResetPort, through the debounce.                                            *)
ResetPort ==
  /\ pc = "idle" /\ calls < MaxCalls /\ "CCS" \in portsc
  /\ calls' = calls + 1 /\ attempt' = 0 /\ Goto("clear")
  /\ changed' = FALSE /\ stable' = TRUE
  /\ UNCHANGED <<ps, after, port>>

clearChangeRead == pc = "clear" /\ Read("cleared")
clearChange ==
  /\ pc = "cleared" /\ WritePort((ps \ (RWC \cup {"PR"})) \cup {"CSC"})
  /\ changed' = FALSE /\ Goto("reset")
  /\ UNCHANGED <<ps, attempt, after, calls, stable>>

(* resetOnce: assert PR, hold it 50 ms, release it from a fresh read.          *)
resetRead == pc = "reset" /\ attempt < 3 /\ Read("assert")
AssertReset ==
  /\ pc = "assert" /\ WritePort((ps \ (RWC \cup {"PED"})) \cup {"PR"})
  /\ attempt' = attempt + 1 /\ Goto("hold")
  /\ UNCHANGED <<ps, after, calls, changed, stable>>

(* Mutant: PR is released with the value read before the reset.                *)
StaleRelease ==
  /\ pc = "hold" /\ (dev = "hs" /\ stable => "PED" \in portsc) /\ Goto("release")
  /\ UNCHANGED <<ps, attempt, after, calls, port, changed, stable>>

(* The 50 ms are enough for a high-speed device's handshake.                   *)
releaseRead ==
  /\ pc = "hold" /\ (dev = "hs" /\ stable => "PED" \in portsc)
  /\ Read("release")

(* Mutant: the change bits read are written back, and so acknowledged.         *)
ReleaseAll ==
  /\ pc = "release" /\ WritePort(ps \ {"PR"}) /\ Goto("settle")
  /\ UNCHANGED <<ps, attempt, after, calls, changed, stable>>

ReleaseReset ==
  /\ pc = "release" /\ WritePort(ps \ (RWC \cup {"PR"})) /\ Goto("settle")
  /\ UNCHANGED <<ps, attempt, after, calls, changed, stable>>

(* 30 samples over 300 ms; the controller ends a reset within 2 ms.            *)
Settle ==
  /\ pc = "settle" /\ ~ending
  /\ Goto(IF "PED" \in portsc \/ "CCS" \notin portsc \/ attempt = 3 THEN "after" ELSE "reset")
  /\ UNCHANGED <<ps, attempt, after, calls, port, changed, stable>>

Return ==
  /\ pc = "after" /\ after' = portsc /\ Goto("idle")
  /\ UNCHANGED <<ps, attempt, calls, port, changed, stable>>

-----------------------------------------------------------------------------
(* The controller: ASPEED's sets Port Enable while the reset is still driven,  *)
(* for a high-speed device, and ends the reset after PR was released.          *)
EnableInReset ==
  /\ "PR" \in portsc /\ dev = "hs" /\ pc = "hold"
  /\ portsc' = portsc \cup {"PED"}
  /\ UNCHANGED <<drv, ending, dev, plugs, changed, stable>>

EndReset ==
  /\ ending /\ ending' = FALSE
  /\ UNCHANGED <<drv, portsc, dev, plugs, changed, stable>>

(* The user and the bus.                                                       *)
Disturb(bits, d) ==
  /\ plugs < MaxPlugs /\ plugs' = plugs + 1 /\ dev' = d
  /\ portsc' = bits /\ stable' = FALSE
  /\ UNCHANGED <<drv, ending>>
Plug == \E d \in {"fs", "hs"} :
          dev = "none" /\ Disturb(portsc \cup {"CCS", "CSC"}, d) /\ changed' = TRUE
Unplug == dev # "none" /\ Disturb((portsc \ {"CCS", "PED"}) \cup {"CSC"}, "none") /\ changed' = TRUE
PortError == "PED" \in portsc /\ Disturb((portsc \ {"PED"}) \cup {"PEC"}, dev) /\ UNCHANGED changed

Next ==
  \/ PollConnect \/ ResetPort \/ clearChangeRead \/ clearChange \/ resetRead \/ AssertReset
  \/ releaseRead \/ ReleaseReset \/ Settle \/ Return
  \/ EnableInReset \/ EndReset \/ Plug \/ Unplug \/ PortError

Spec == Init /\ [][Next]_vars

-----------------------------------------------------------------------------
TypeOK ==
  /\ pc \in {"idle", "clear", "cleared", "reset", "assert", "hold", "release", "settle",
             "after"}
  /\ portsc \subseteq Bits /\ ps \subseteq Bits /\ after \subseteq Bits
  /\ attempt \in 0 .. 3 /\ dev \in {"none", "fs", "hs"} /\ ending \in BOOLEAN
  /\ calls \in 0 .. MaxCalls /\ plugs \in 0 .. MaxPlugs

(* A device that is swapped or unplugged after ResetPort acknowledged the      *)
(* connect change shows as a change from then on: none of the driver's         *)
(* read-modify-writes of PORTSC acknowledges it.                               *)
SwapIsSeen == changed => "CSC" \in portsc

(* A high-speed device that stays put and does not fail is enabled when        *)
(* ResetPort returns: no write of PORTSC undoes the controller's enable.       *)
StableIsEnabled == pc = "idle" /\ stable /\ dev = "hs" => "PED" \in after
=============================================================================
