---------------------------- MODULE Dcl2Session ----------------------------
(***************************************************************************)
(* Why dcSendMessage confirms only what was picked up: the inductive       *)
(* invariant behind ConfirmedPickedUp, SequenceAgreement and               *)
(* ImplementsReliableService of Dcl2, for two stations with this library   *)
(* whose answers to a CONN are not older than a timeout and whose expired  *)
(* waiters run before the next frame.                                      *)
(*                                                                         *)
(* An acknowledgement carries three bits and no session, so an old one     *)
(* must not be around when its number is expected again.  The argument has *)
(* two layers.  A station never has two handshakes under way, and two      *)
(* stations that are both up have none that would reset one of them        *)
(* (HandshakeInv).  Hence both count from the same reset, and the number   *)
(* the sender waits for, the number the receiver waits for, the numbers on *)
(* the wire and the messages behind them fit together (SessionInv).        *)
(***************************************************************************)
EXTENDS Dcl2Inv

\* The hypotheses: one caller, expired waiters that run before the next frame, no wait
\* that expires before the handshake it may depend on is over, external methods that
\* succeed, no foreign peer, no dcDisconnect.
AnswersInTime == Delay # "any"
NoFailures == Failing = {}
SameLibrary == MaxNack = 0
StaysConnected == ~Disconnects
Timely ==
  /\ SingleThread /\ PromptWakeup
  /\ AnswersInTime /\ NoFailures /\ SameLibrary /\ StaysConnected

\* The link is up, or a connect call is about to say so.
Up(s) == LinkUp(dc[s]) \/ \E t \in Thread : Connected(s, t)
\* A connect call has had no answer yet.
Asking(s) == dc[s].state = "DC_CONNECTING" /\ \A t \in Thread : ~Connected(s, t)
\* Nothing of an earlier handshake of s may be left.
Over(s) ==
  \/ dc[s].state = "DC_DISCONNECTED"
  \/ \E t \in Thread :
       thr[s][t].wait = "expired" \/ (Sending(s, t) /\ Doomed(s, t))

\* dcSendMessage waits for its acknowledgement, or has been woken by it.
Awaiting(s) ==
  \E t \in Thread : Sending(s, t) /\ thr[s][t].wait \in {"blocked", "expired"}
Acknowledged(s) ==
  \E t \in Thread : /\ Sending(s, t) /\ thr[s][t].wait = "signaled"
                    /\ dc[s].last_response = "DC_RESP_OK"

IsDelivered(m, r) == \E i \in 1 .. Len(delivered[r]) : delivered[r][i] = m

\* The positions of the frames of a type on the wire towards s.
At(s, type) == {i \in 1 .. Len(link[s]) : link[s][i].frame = type}

\* A call is in progress where the state says so; a station that is not up has been
\* reset; no wait fails and no NACK arrives.
CallerInv(s) ==
  /\ dc[s].state = "DC_CONNECTING" => \E t \in Thread : thr[s][t].fn = "dcConnect"
  /\ dc[s].state = "DC_TRANSMITTING" => \E t \in Thread : Live(s, t)
  /\ ~LinkUp(dc[s]) =>
       /\ dc[s].send_number = 0 /\ dc[s].next_expected_ack = 0
       /\ dc[s].recv_number = 0 /\ dc[s].extractionBuffer = NoMsg
  /\ \A t \in Thread :
       /\ thr[s][t].wait # "failed"
       /\ Sending(s, t) /\ thr[s][t].wait = "signaled" =>
            dc[s].last_response # "DC_RESP_REJECT"
  /\ At(s, "NACK") = {}
-----------------------------------------------------------------------------
(* The handshakes of s: its CONN on the wire to its peer, or the CONN_ACK on *)
(* the wire back.                                                            *)

OneHandshake(s) ==
  LET conn == At(Peer(s), "CONN")
      connAck == At(s, "CONN_ACK")
  IN  /\ \A i, j \in conn : i = j
      /\ \A i, j \in connAck : i = j
      /\ conn = {} \/ connAck = {}
      /\ Over(s) => conn = {} /\ connAck = {}

\* A connecting station sends nothing after its CONN.
AskedLast(s) ==
  Asking(s) => /\ \A i \in At(Peer(s), "CONN") : i = Len(link[Peer(s)])
               /\ At(s, "CONN_ACK") # {} => link[Peer(s)] = <<>>

\* A station that is up and has a handshake left came up by the CONN of its peer,
\* which it answered right behind its own CONN.
UpCrossed(s) ==
  Up(s) => /\ \A i \in At(Peer(s), "CONN") : i + 1 \in At(Peer(s), "CONN_ACK")
           /\ \A i \in At(s, "CONN_ACK") : i = 1

HandshakeInv(s) == OneHandshake(s) /\ AskedLast(s) /\ UpCrossed(s)
-----------------------------------------------------------------------------
(* The session: s sends, r = Peer(s) receives *)

\* A peer that has answered a CONN has done nothing else since its reset.
AnsweredFresh(s) ==
  LET r == Peer(s)
  IN  Asking(s) => \A i \in At(s, "CONN_ACK") :
        /\ dc[r].recv_number = 0 /\ dc[r].next_expected_ack = 0
        /\ dc[r].extractionBuffer = NoMsg
        /\ \A k \in At(s, "ACK") : k < i

\* send_number is ahead of next_expected_ack exactly while a message is unanswered.
NumbersInv(s) ==
  /\ dc[s].send_number = IF Awaiting(s) THEN Succ(dc[s].next_expected_ack)
                                        ELSE dc[s].next_expected_ack
  /\ \A t \in Thread : Sending(s, t) /\ thr[s][t].wait \in {"blocked", "expired"} =>
       thr[s][t].frame.seq = dc[s].next_expected_ack

\* An acknowledgement on the wire is an old one, or the one that is expected: then
\* the message was picked up.  None is behind a CONN.
AckInv(s) ==
  LET n == dc[s].next_expected_ack
  IN  /\ \A i \in At(s, "CONN"), k \in At(s, "ACK") : k < i
      /\ Up(s) => \A i \in At(s, "ACK") :
           /\ link[s][i].seq # n => Succ(link[s][i].seq) = n
           /\ link[s][i].seq = n =>
                /\ Awaiting(s) /\ IsDelivered(sent[s], Peer(s))
                /\ \A k \in At(s, "ACK") : i < k => link[s][k].seq = n

\* A message on the wire of this session is an old copy or the one in transmission.
DataInv(s) ==
  LET n == dc[s].next_expected_ack
      W == link[Peer(s)]
  IN  Up(s) => \A i \in At(Peer(s), "DATA") : (\A k \in i .. Len(W) : ~IsBorder(W[k])) =>
        /\ W[i].seq # n => Succ(W[i].seq) = n
        /\ W[i].seq = n => Awaiting(s) /\ W[i].msg = sent[s]

\* The receiver expects the number the sender uses next, or the one after it when it
\* has the message in transmission already.
RecvInv(s) ==
  LET n == dc[s].next_expected_ack
      r == Peer(s)
  IN  Up(s) /\ Up(r) =>
        /\ dc[r].recv_number # n =>
             dc[r].recv_number = Succ(n) /\ Awaiting(s) /\ Newest(r) = sent[s]
        /\ \A i \in At(s, "ACK") : link[s][i].seq = n => dc[r].recv_number # n

ConfirmInv(s) ==
  /\ Acknowledged(s) => IsDelivered(sent[s], Peer(s))
  /\ \A m \in confirmed[s] : IsDelivered(m, Peer(s))

SessionInv(s) ==
  /\ AnsweredFresh(s) /\ NumbersInv(s) /\ AckInv(s) /\ DataInv(s)
  /\ RecvInv(s) /\ ConfirmInv(s)

\* The inductive invariant: what is confirmed was picked up because of it.
TimelyInv ==
  \A s \in Station : CallerInv(s) /\ HandshakeInv(s) /\ SessionInv(s)
=============================================================================
