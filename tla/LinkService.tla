---------------------------- MODULE LinkService ----------------------------
(***************************************************************************)
(* What dcl2 promises the two applications, without frames, sequence       *)
(* numbers, timeouts or connections: messages handed over at one station   *)
(* are picked up at the other one in their order and at most once each,    *)
(* and may be skipped.  Message m is the m-th one a station accepted.      *)
(***************************************************************************)
EXTENDS Naturals, Sequences

CONSTANTS Controller, Reader

VARIABLES
  sent,       \* sent[s]: how many messages station s has accepted
  delivered,  \* delivered[s]: messages picked up at s
  confirmed   \* confirmed[s]: messages whose sender was told that they arrived

vars == <<sent, delivered, confirmed>>

Station == {Controller, Reader}
Peer(s) == IF s = Controller THEN Reader ELSE Controller
IsDelivered(m, s) == \E i \in 1 .. Len(delivered[s]) : delivered[s][i] = m

Init ==
  /\ sent = [s \in Station |-> 0]
  /\ delivered = [s \in Station |-> <<>>]
  /\ confirmed = [s \in Station |-> {}]

\* dcSendMessage accepts a message.
Accept(s) ==
  /\ sent' = [sent EXCEPT ![s] = @ + 1]
  /\ UNCHANGED <<delivered, confirmed>>

\* dcGetReceivedMsg hands over a message that is newer than all before it.
PickUp(s) ==
  /\ \E m \in 1 .. sent[Peer(s)] :
       /\ \A i \in 1 .. Len(delivered[s]) : delivered[s][i] < m
       /\ delivered' = [delivered EXCEPT ![s] = Append(@, m)]
  /\ UNCHANGED <<sent, confirmed>>

\* dcSendMessage returns DC_OK for a message it accepted.
Confirm(s) ==
  /\ \E m \in 1 .. sent[s] : confirmed' = [confirmed EXCEPT ![s] = @ \cup {m}]
  /\ UNCHANGED <<sent, delivered>>

\* It does so only when the message has been picked up.
ConfirmDelivered(s) ==
  Confirm(s) /\ \A m \in confirmed'[s] \ confirmed[s] : IsDelivered(m, Peer(s))

Next == \E s \in Station : Accept(s) \/ PickUp(s) \/ Confirm(s)
Spec == Init /\ [][Next]_vars

ReliableNext == \E s \in Station : Accept(s) \/ PickUp(s) \/ ConfirmDelivered(s)
ReliableSpec == Init /\ [][ReliableNext]_vars
=============================================================================
