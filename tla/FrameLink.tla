----------------------------- MODULE FrameLink -----------------------------
(***************************************************************************)
(* What the link state machine takes for granted of the line below it:     *)
(* frames are received in the order they were sent in, unchanged and none  *)
(* of them twice, and may be lost.  There are no octets, no checksum and   *)
(* no chunks.                                                              *)
(***************************************************************************)
EXTENDS Naturals, Sequences

CONSTANT Frames

VARIABLES
  sent,
  received,
  last      \* the number of the frame received last, 0 before the first

vars == <<sent, received, last>>

Init == sent = <<>> /\ received = <<>> /\ last = 0

Send ==
  /\ \E f \in Frames : sent' = Append(sent, f)
  /\ UNCHANGED <<received, last>>

\* Those in between are lost.
Receive ==
  /\ \E n \in last + 1 .. Len(sent) : received' = Append(received, sent[n]) /\ last' = n
  /\ UNCHANGED sent

Next == Send \/ Receive
Spec == Init /\ [][Next]_vars
=============================================================================
