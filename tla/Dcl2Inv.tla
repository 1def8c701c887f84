------------------------------ MODULE Dcl2Inv ------------------------------
(***************************************************************************)
(* Why no message is picked up twice: the inductive invariant behind       *)
(* AtMostOnce of Dcl2, for stations with one calling thread, expired       *)
(* waiters that run before the next frame, and signals that do not fail.   *)
(*                                                                         *)
(* A station starts numbering afresh only after it has taken a CONN or a   *)
(* CONN_ACK off its wire.  Such a frame, a border, separates the copies of *)
(* different messages: a sender that answers a CONN is told that the link  *)
(* is gone and stops repeating its frame, and a sender that connects has   *)
(* no frame to repeat.  So the copies of a message that was accepted reach *)
(* the receiver before the next border, while it still expects the number  *)
(* after theirs.                                                           *)
(***************************************************************************)
EXTENDS Dcl2

SingleThread == \A t, u \in Thread : t = u
PromptWakeup == ~LateWakeup
SignalsSucceed == "condvarSignal" \notin Failing

\* The last message station r accepted and has not dropped in a reset.
Newest(r) ==
  IF dc[r].extractionBuffer # NoMsg THEN dc[r].extractionBuffer
  ELSE IF delivered[r] = <<>> THEN NoMsg
  ELSE delivered[r][Len(delivered[r])]

IsData(f) == f.frame = "DATA"
IsBorder(f) == f.frame \in {"CONN", "CONN_ACK"}

Sending(s, t) == thr[s][t].fn = "dcSendMessage"
\* The thread has been told that the link is gone: it will not transmit again.
Doomed(s, t) ==
  thr[s][t].wait = "signaled" /\ dc[s].last_response = "DC_RESP_NOLINK"
Live(s, t) == Sending(s, t) /\ ~Doomed(s, t)
Connected(r, t) == thr[r][t].fn = "dcConnect" /\ thr[r][t].wait = "signaled"

\* A copy of the newest message numbered n would not be accepted at r, now or
\* after a connect call that is about to return.
Settled(r, n) ==
  /\ LinkUp(dc[r]) => Succ(n) = dc[r].recv_number
  /\ \A t \in Thread : ~Connected(r, t)

\* What a call in progress says about the state of the structure.
CallInv(s) ==
  /\ dc[s].extractionComplete <=> dc[s].extractionBuffer # NoMsg
  /\ \A t \in Thread :
       /\ thr[s][t].fn = "none" <=> thr[s][t].wait = "none"
       /\ thr[s][t].fn = "dcConnect" => dc[s].state = "DC_CONNECTING"
       /\ Sending(s, t) =>
            /\ IF Doomed(s, t) THEN dc[s].state = "DC_CONNECTED"
                               ELSE dc[s].state = "DC_TRANSMITTING"
            /\ IsData(thr[s][t].frame)
            /\ thr[s][t].frame.msg = sent[s] /\ sent[s] >= 1

\* What was picked up, what is pending, what was sent.
PickupInv(r) ==
  /\ \A i, j \in 1 .. Len(delivered[r]) : i < j => delivered[r][i] < delivered[r][j]
  /\ dc[r].extractionBuffer # NoMsg =>
       \A i \in 1 .. Len(delivered[r]) : delivered[r][i] < dc[r].extractionBuffer
  /\ \A i \in 1 .. Len(delivered[r]) : delivered[r][i] >= 1
  /\ Newest(r) <= sent[Peer(r)]

\* The message at position i of the wire towards r: not older than the newest at r,
\* and if it is another copy of that, settled and not behind a border.
FrameInv(r, i) ==
  /\ link[r][i].msg \in 1 .. sent[Peer(r)]
  /\ Newest(r) <= link[r][i].msg
  /\ Newest(r) = link[r][i].msg =>
       /\ Settled(r, link[r][i].seq)
       /\ \A k \in 1 .. i : ~IsBorder(link[r][k])
\* Messages in order, copies alike, no border between copies.
PairInv(r, i, j) ==
  /\ link[r][i].msg <= link[r][j].msg
  /\ link[r][i].msg = link[r][j].msg =>
       /\ link[r][i].seq = link[r][j].seq
       /\ \A k \in i .. j : ~IsBorder(link[r][k])
WireInv(r) ==
  /\ \A i \in 1 .. Len(link[r]) : IsData(link[r][i]) => FrameInv(r, i)
  /\ \A i, j \in 1 .. Len(link[r]) :
       i < j /\ IsData(link[r][i]) /\ IsData(link[r][j]) => PairInv(r, i, j)

\* The same of a frame f that a thread of the peer may still put on the wire.
CopyInv(r, f) ==
  /\ Newest(r) = f.msg =>
       /\ Settled(r, f.seq)
       /\ \A k \in 1 .. Len(link[r]) : ~IsBorder(link[r][k])
  /\ \A i \in 1 .. Len(link[r]) : IsData(link[r][i]) /\ link[r][i].msg = f.msg =>
       /\ link[r][i].seq = f.seq
       /\ \A k \in i .. Len(link[r]) : ~IsBorder(link[r][k])
RepeatInv(r) ==
  \A t \in Thread : Live(Peer(r), t) => CopyInv(r, thr[Peer(r)][t].frame)

\* The inductive invariant: every message is picked up at most once because of it.
AtMostOnceInv ==
  \A s \in Station : CallInv(s) /\ PickupInv(s) /\ WireInv(s) /\ RepeatInv(s)
=============================================================================
