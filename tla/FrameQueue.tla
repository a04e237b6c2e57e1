------------------------------ MODULE FrameQueue ----------------------------
(* What either half of hal/ftgmac100 promises: a bounded queue of frames that   *)
(* leave in order, each once and with its own bytes while the memory system is *)
(* exact, or are flushed.  Sending, frames leave on the wire; receiving, they  *)
(* leave into the caller's buffer.                                             *)
EXTENDS Naturals, Sequences

CONSTANTS Capacity, Frames, Blank

VARIABLES queue, out, exact

Init == queue = <<>> /\ out = <<>> /\ exact \in BOOLEAN

Accept ==
  /\ Len(queue) < Capacity
  /\ \E f \in Frames : queue' = Append(queue, f)
  /\ UNCHANGED <<out, exact>>

Deliver ==
  /\ queue # <<>>
  /\ queue' = Tail(queue)
  /\ \E f \in Frames \cup {Blank} : /\ out' = Append(out, f)
                                    /\ exact => f = Head(queue)
  /\ UNCHANGED exact

(* Re-initialising the MAC: buffers may be wiped, then the queue is dropped.   *)
Disturb == exact' \in BOOLEAN /\ UNCHANGED <<queue, out>>
Flush == queue' = <<>> /\ exact' \in BOOLEAN /\ UNCHANGED out

Next == Accept \/ Deliver \/ Disturb \/ Flush

Spec == Init /\ [][Next]_<<queue, out, exact>>
=============================================================================
