----------------------------- MODULE Dcl2Proofs -----------------------------
(* Proofs about Dcl2, for every value of the constants its assumptions allow. *)
EXTENDS Dcl2Inv, SequenceTheorems, TLAPS

-----------------------------------------------------------------------------
(* The operators of the model stay within their types *)

LEMMA SuccPredType ==
  ASSUME NEW n \in SeqNumber
  PROVE  Succ(n) \in SeqNumber /\ Pred(n) \in SeqNumber
BY ParameterAssumption DEF SeqNumber, Succ, Pred

LEMMA ZeroType == 0 \in SeqNumber
BY ParameterAssumption DEF SeqNumber

LEMMA PeerType ==
  ASSUME NEW s \in Station
  PROVE  Peer(s) \in Station /\ Peer(s) # s /\ Peer(Peer(s)) = s
BY StationAssumption DEF Station, Peer

LEMMA FrameFormed ==
  /\ \A n \in SeqNumber, m \in Nat : Data(n, m) \in Frame
  /\ \A type \in FrameType, n \in SeqNumber : Control(type, n) \in Frame
  /\ NoFrame \notin Frame
BY DEF Data, Control, Frame, FrameType, NoMsg, NoFrame

LEMMA HandlerType ==
  ASSUME NEW d \in DeadcomL2, NEW f \in Frame
  PROVE  /\ resetLink(d) \in DeadcomL2
         /\ RolledBack(d) \in DeadcomL2
         /\ Stored(d, f) \in DeadcomL2
         /\ PickedUp(d) \in DeadcomL2
         /\ ConnAccepted(d) \in DeadcomL2
<1>1. resetLink(d) \in DeadcomL2
  <2>1. 0 \in 0 .. MaxFailures - 1 BY ParameterAssumption
  <2> QED BY <2>1, ZeroType DEF resetLink, DeadcomL2, State, NoMsg
<1>2. RolledBack(d) \in DeadcomL2
  BY SuccPredType DEF RolledBack, DeadcomL2, State
<1>3. Stored(d, f) \in DeadcomL2
  BY SuccPredType DEF Stored, DeadcomL2, Frame
<1>4. PickedUp(d) \in DeadcomL2
  BY DEF PickedUp, DeadcomL2, NoMsg
<1>5. ConnAccepted(d) \in DeadcomL2
  BY <1>1 DEF ConnAccepted, DeadcomL2, State, LastResponse
<1> QED BY <1>1, <1>2, <1>3, <1>4, <1>5

LEMMA WaitType ==
  ASSUME NEW calls \in [Station -> [Thread -> Call]], NEW s \in Station, NEW t \in Thread,
         calls[s][t].wait = "blocked", NEW w \in {"signaled", "expired", "failed"}
  PROVE  [calls EXCEPT ![s][t].wait = w] \in [Station -> [Thread -> Call]]
<1>1. calls[s][t] \in Call
  OBVIOUS
<1>2. [calls[s][t] EXCEPT !.wait = w] \in Call
  BY <1>1 DEF Call
<1>3. [calls[s] EXCEPT ![t].wait = w] \in [Thread -> Call]
  BY <1>2
<1> QED BY <1>3

LEMMA ReturnType ==
  ASSUME thr \in [Station -> [Thread -> Call]],
         NEW s \in Station, NEW t \in Thread, NEW r \in Result, Return(s, t, r)
  PROVE  thr' \in [Station -> [Thread -> Call]]
<1>1. [fn |-> "none", wait |-> "none", frame |-> NoFrame, ret |-> r] \in Call
  BY DEF Call
<1> QED BY <1>1 DEF Return

LEMMA BlockType ==
  ASSUME thr \in [Station -> [Thread -> Call]],
         NEW s \in Station, NEW t \in Thread, NEW f \in Frame,
         NEW fn \in {"dcConnect", "dcSendMessage"}, Block(s, t, fn, f)
  PROVE  thr' \in [Station -> [Thread -> Call]]
<1>1. [fn |-> fn, wait |-> "blocked", frame |-> f, ret |-> "none"] \in Call
  BY DEF Call
<1> QED BY <1>1 DEF Block

LEMMA SignalType ==
  ASSUME thr \in [Station -> [Thread -> Call]],
         NEW s \in Station, NEW ok \in BOOLEAN, Signal(s, ok)
  PROVE  thr' \in [Station -> [Thread -> Call]]
<1>1. CASE thr' = thr
  BY <1>1
<1>2. CASE \E t \in Thread : /\ thr[s][t].wait = "blocked"
                            /\ thr' = [thr EXCEPT ![s][t].wait = "signaled"]
  <2>1. PICK t \in Thread : /\ thr[s][t].wait = "blocked"
                           /\ thr' = [thr EXCEPT ![s][t].wait = "signaled"]
    BY <1>2
  <2> QED BY <2>1, WaitType
<1> QED BY <1>1, <1>2 DEF Signal

LEMMA ExtType ==
  ASSUME extFails \in Nat, NEW m, NEW ok \in BOOLEAN, Ext(m, ok)
  PROVE  extFails' \in Nat
BY DEF Ext

LEMMA TransmitType ==
  ASSUME link \in [Station -> Seq(Frame)], extFails \in Nat,
         NEW s \in Station, NEW f \in Frame, NEW ok \in BOOLEAN, Transmit(s, f, ok)
  PROVE  link' \in [Station -> Seq(Frame)] /\ extFails' \in Nat
<1>1. extFails' \in Nat BY ExtType DEF Transmit
<1>2. Append(link[Peer(s)], f) \in Seq(Frame) BY PeerType
<1> QED BY <1>1, <1>2, PeerType DEF Transmit

LEMMA DropType ==
  ASSUME NEW W \in Seq(Frame), NEW n \in 1 .. Len(W) + 1
  PROVE  /\ SubSeq(W, n, Len(W)) \in Seq(Frame)
         /\ Len(SubSeq(W, n, Len(W))) = Len(W) - n + 1
         /\ \A i \in 1 .. Len(W) - n + 1 : SubSeq(W, n, Len(W))[i] = W[i + n - 1]
<1>1. Len(W) \in Nat BY LenProperties
<1>2. \A i \in n .. Len(W) : W[i] \in Frame BY <1>1, ElementOfSeq
<1> QED BY <1>1, <1>2, SubSeqProperties

LEMMA ProcessType ==
  ASSUME link \in [Station -> Seq(Frame)], extFails \in Nat, NEW s \in Station,
         link[s] # <<>>, NEW m, NEW ok \in BOOLEAN,
         NEW reply \in Frame \cup {NoFrame}, Process(s, m, ok, reply)
  PROVE  link' \in [Station -> Seq(Frame)] /\ extFails' \in Nat
<1>1. extFails' \in Nat BY ExtType DEF Process
<1>2. Len(link[s]) \in Nat \ {0} BY EmptySeq
<1>3. PICK n \in (IF ok THEN {2} ELSE 2 .. Len(link[s]) + 1) :
        link' = [link EXCEPT ![s] = SubSeq(@, n, Len(@)),
                             ![Peer(s)] = IF reply = NoFrame THEN @ ELSE Append(@, reply)]
  BY DEF Process
<1>6. n \in 1 .. Len(link[s]) + 1
  BY <1>2
<1>4. SubSeq(link[s], n, Len(link[s])) \in Seq(Frame) BY <1>6, DropType
<1>5. (IF reply = NoFrame THEN link[Peer(s)] ELSE Append(link[Peer(s)], reply)) \in Seq(Frame)
  BY PeerType
<1> QED BY <1>1, <1>3, <1>4, <1>5, PeerType

LEMMA TailType ==
  ASSUME link \in [Station -> Seq(Frame)], NEW s \in Station, link[s] # <<>>,
         link' = [link EXCEPT ![s] = Tail(@)]
  PROVE  link' \in [Station -> Seq(Frame)]
BY HeadTailProperties

LEMMA IncomingHead ==
  ASSUME link \in [Station -> Seq(Frame)], NEW s \in Station, NEW type, Incoming(s, type)
  PROVE  link[s] # <<>> /\ Head(link[s]) \in Frame
BY HeadTailProperties DEF Incoming
-----------------------------------------------------------------------------
(* Type correctness *)

LEMMA TypeInit == Init => TypeOK
BY ZeroType, ParameterAssumption
DEF Init, TypeOK, DeadcomL2, State, LastResponse, Call, NoFrame, NoMsg

LEMMA ThreadType ==
  ASSUME TypeOK, NEW s \in Station, NEW t \in Thread, ThreadStep(s, t)
  PROVE  TypeOK'
<1> USE DEF TypeOK
<1>0. dc[s] \in DeadcomL2 /\ thr[s][t] \in Call
  OBVIOUS
<1>a. \A st \in State : [dc EXCEPT ![s].state = st] \in [Station -> DeadcomL2]
  <2>1. \A d \in DeadcomL2, st \in State : [d EXCEPT !.state = st] \in DeadcomL2
    BY DEF DeadcomL2
  <2> QED BY <2>1
<1>b. \A d \in DeadcomL2 : [dc EXCEPT ![s] = d] \in [Station -> DeadcomL2]
  OBVIOUS
<1>c. /\ resetLink(dc[s]) \in DeadcomL2
      /\ RolledBack(dc[s]) \in DeadcomL2
  <2>1. NoFrame \notin Frame /\ Control("CONN", 0) \in Frame
    BY FrameFormed, ZeroType DEF FrameType
  <2> QED BY <2>1, HandlerType
<1>d. \A st \in State, d \in DeadcomL2 : [d EXCEPT !.state = st] \in DeadcomL2
  BY DEF DeadcomL2
<1>1. CASE ConnectRefused(s, t)
  BY <1>1, ReturnType DEF ConnectRefused, Result, history
<1>2. CASE ConnectStart(s, t)
  <2>1. PICK ok \in BOOLEAN :
          /\ Transmit(s, Control("CONN", 0), ok)
          /\ dc' = [dc EXCEPT ![s].state = IF ok THEN "DC_CONNECTING" ELSE "DC_DISCONNECTED"]
          /\ IF ok THEN Block(s, t, "dcConnect", Control("CONN", 0))
                   ELSE Return(s, t, "DC_FAILURE")
    BY <1>2 DEF ConnectStart
  <2>2. Control("CONN", 0) \in Frame BY FrameFormed, ZeroType DEF FrameType
  <2>3. link' \in [Station -> Seq(Frame)] /\ extFails' \in Nat BY <2>1, <2>2, TransmitType
  <2>4. thr' \in [Station -> [Thread -> Call]]
    BY <2>1, <2>2, BlockType, ReturnType DEF Result
  <2>5. dc' \in [Station -> DeadcomL2] BY <2>1, <1>a DEF State
  <2>6. conns' \in [Station -> Nat] BY <1>2 DEF ConnectStart
  <2> QED BY <1>2, <2>3, <2>4, <2>5, <2>6 DEF ConnectStart, history
<1>3. CASE ConnectResume(s, t)
  <2>1. dc' \in [Station -> DeadcomL2]
    <3>1. [resetLink(dc[s]) EXCEPT !.state = "DC_CONNECTED"] \in DeadcomL2
      BY <1>c, <1>d DEF State
    <3> QED BY <1>3, <3>1, <1>a DEF ConnectResume, State
  <2>2. thr' \in [Station -> [Thread -> Call]]
    BY <1>3, ReturnType DEF ConnectResume, Result
  <2> QED BY <1>3, <2>1, <2>2 DEF ConnectResume, history
<1>4. CASE Disconnect(s, t)
  <2>1. dc' \in [Station -> DeadcomL2] BY <1>4, <1>a DEF Disconnect, State
  <2>2. thr' \in [Station -> [Thread -> Call]]
    BY <1>4, ReturnType DEF Disconnect, Result
  <2> QED BY <1>4, <2>1, <2>2 DEF Disconnect, history
<1>5. CASE SendRefused(s, t)
  BY <1>5, ReturnType DEF SendRefused, Result, history
<1>6. CASE SendStart(s, t)
  <2> DEFINE d == [dc[s] EXCEPT !.send_number = Succ(@), !.failure_count = 0,
                                !.state = "DC_TRANSMITTING"]
             f == Data(dc[s].send_number, sent[s] + 1)
  <2>1. PICK ok \in BOOLEAN :
          /\ Transmit(s, f, ok)
          /\ dc' = [dc EXCEPT ![s] = IF ok THEN d ELSE RolledBack(d)]
          /\ IF ok THEN Block(s, t, "dcSendMessage", f) ELSE Return(s, t, "DC_FAILURE")
    BY <1>6 DEF SendStart
  <2>2. f \in Frame BY <1>0, FrameFormed DEF DeadcomL2
  <2>3. d \in DeadcomL2
    <3>1. 0 \in 0 .. MaxFailures - 1 BY ParameterAssumption
    <3> QED BY <1>0, <3>1, SuccPredType DEF DeadcomL2, State
  <2>4. RolledBack(d) \in DeadcomL2 BY <2>2, <2>3, HandlerType
  <2> HIDE DEF d, f
  <2>5. link' \in [Station -> Seq(Frame)] /\ extFails' \in Nat BY <2>1, <2>2, TransmitType
  <2>6. thr' \in [Station -> [Thread -> Call]]
    BY <2>1, <2>2, BlockType, ReturnType DEF Result
  <2>7. dc' \in [Station -> DeadcomL2] BY <2>1, <2>3, <2>4
  <2>8. sent' \in [Station -> Nat] BY <1>6 DEF SendStart
  <2> QED BY <1>6, <2>5, <2>6, <2>7, <2>8 DEF SendStart
<1>7. CASE SendConfirmed(s, t)
  <2>1. thr[s][t].frame.msg \in Nat
    <3>1. thr[s][t].frame \in Frame BY <1>0, <1>7 DEF SendConfirmed, InSend, Call
    <3> QED BY <3>1 DEF Frame
  <2>2. confirmed' \in [Station -> SUBSET Nat]
    <3>1. confirmed[s] \cup {thr[s][t].frame.msg} \in SUBSET Nat BY <2>1
    <3> QED BY <1>7, <3>1 DEF SendConfirmed
  <2>3. dc' \in [Station -> DeadcomL2] BY <1>7, <1>a DEF SendConfirmed, State
  <2>4. thr' \in [Station -> [Thread -> Call]]
    BY <1>7, ReturnType DEF SendConfirmed, Result
  <2> QED BY <1>7, <2>2, <2>3, <2>4 DEF SendConfirmed
<1>8. CASE SendAgain(s, t)
  <2> DEFINE d == [dc[s] EXCEPT !.failure_count = @ + 1]
             f == thr[s][t].frame
  <2>1. PICK ok \in BOOLEAN :
          /\ Transmit(s, f, ok)
          /\ dc' = [dc EXCEPT ![s] = IF ok THEN d ELSE RolledBack(d)]
          /\ IF ok THEN Block(s, t, "dcSendMessage", f) ELSE Return(s, t, "DC_FAILURE")
    BY <1>8 DEF SendAgain
  <2>2. f \in Frame BY <1>0, <1>8 DEF SendAgain, Unanswered, InSend, Call
  <2>3. d \in DeadcomL2
    <3>1. dc[s].failure_count \in 0 .. MaxFailures - 1
      BY <1>0 DEF DeadcomL2
    <3>2. dc[s].failure_count + 1 \in 0 .. MaxFailures - 1
      BY <1>8, <3>1, ParameterAssumption DEF SendAgain, LastAttempt
    <3>3. \A c \in 0 .. MaxFailures - 1 : [dc[s] EXCEPT !.failure_count = c] \in DeadcomL2
      BY <1>0 DEF DeadcomL2
    <3> QED BY <3>2, <3>3
  <2>4. RolledBack(d) \in DeadcomL2 BY <2>2, <2>3, HandlerType
  <2> HIDE DEF d, f
  <2>5. link' \in [Station -> Seq(Frame)] /\ extFails' \in Nat BY <2>1, <2>2, TransmitType
  <2>6. thr' \in [Station -> [Thread -> Call]]
    BY <2>1, <2>2, BlockType, ReturnType DEF Result
  <2>7. dc' \in [Station -> DeadcomL2] BY <2>1, <2>3, <2>4
  <2> QED BY <1>8, <2>5, <2>6, <2>7 DEF SendAgain, history
<1>9. CASE SendLinkReset(s, t)
  <2>1. dc' \in [Station -> DeadcomL2] BY <1>9, <1>c DEF SendLinkReset
  <2>2. thr' \in [Station -> [Thread -> Call]]
    BY <1>9, ReturnType DEF SendLinkReset, Result
  <2> QED BY <1>9, <2>1, <2>2 DEF SendLinkReset, history
<1>10. CASE SendWaitFailed(s, t)
  <2>1. dc' \in [Station -> DeadcomL2] BY <1>10, <1>c DEF SendWaitFailed
  <2>2. thr' \in [Station -> [Thread -> Call]]
    BY <1>10, ReturnType DEF SendWaitFailed, Result
  <2> QED BY <1>10, <2>1, <2>2 DEF SendWaitFailed, history
<1>11. CASE Expire(s, t)
  BY <1>11, WaitType DEF Expire, history
<1>12. CASE WaitFails(s, t)
  BY <1>12, WaitType, ExtType DEF WaitFails, history
<1> QED
  BY <1>1, <1>2, <1>3, <1>4, <1>5, <1>6, <1>7, <1>8, <1>9, <1>10, <1>11, <1>12
  DEF ThreadStep, SendResume

LEMMA ReceiveType ==
  ASSUME TypeOK, NEW s \in Station, Receive(s)
  PROVE  TypeOK'
<1> USE DEF TypeOK
<1>0. dc[s] \in DeadcomL2
  OBVIOUS
<1>a. \A d \in DeadcomL2 : [dc EXCEPT ![s] = d] \in [Station -> DeadcomL2]
  OBVIOUS
<1>b. ASSUME link[s] # <<>>, Ignore(s)
      PROVE  link' \in [Station -> Seq(Frame)] /\ extFails' \in Nat
  BY <1>b, TailType DEF Ignore
<1>d. \A type \in FrameType, n \in SeqNumber : Control(type, n) \in Frame
  BY FrameFormed
<1>1. CASE ReceiveData(s)
  <2> DEFINE d == dc[s]
             f == Head(link[s])
  <2>0. f \in Frame /\ link[s] # <<>> BY <1>1, IncomingHead DEF ReceiveData
  <2>1. CASE Ignore(s) /\ UNCHANGED dc
    BY <1>1, <1>b, <2>0, <2>1 DEF ReceiveData, history
  <2>2. CASE Ignore(s) /\ dc' = [dc EXCEPT ![s] = Stored(d, f)]
    <3>1. Stored(d, f) \in DeadcomL2 BY <1>0, <2>0, HandlerType
    <3>2. dc' \in [Station -> DeadcomL2] BY <2>2, <3>1
    <3> QED BY <1>1, <1>b, <2>0, <2>2, <3>2 DEF ReceiveData, history
  <2>3. CASE \E ok \in BOOLEAN :
               /\ Process(s, "transmitBytes", ok,
                          IF ok THEN Control("ACK", Pred(d.recv_number)) ELSE NoFrame)
               /\ UNCHANGED dc
    <3>1. Control("ACK", Pred(d.recv_number)) \in Frame
      BY <1>0, <1>d, SuccPredType DEF FrameType, DeadcomL2
    <3>2. link' \in [Station -> Seq(Frame)] /\ extFails' \in Nat
      BY <2>0, <2>3, <3>1, ProcessType
    <3> QED BY <1>1, <2>3, <3>2 DEF ReceiveData, history
  <2> QED BY <1>1, <2>1, <2>2, <2>3 DEF ReceiveData
<1>2. CASE ReceiveAck(s)
  <2>0. link[s] # <<>> BY <1>2, IncomingHead DEF ReceiveAck
  <2>1. CASE Ignore(s) /\ UNCHANGED <<dc, thr>>
    BY <1>2, <1>b, <2>0, <2>1 DEF ReceiveAck, history
  <2>2. CASE /\ dc' = [dc EXCEPT ![s].next_expected_ack = Succ(@),
                                 ![s].last_response = "DC_RESP_OK"]
             /\ \E ok \in BOOLEAN : Signal(s, ok) /\ Process(s, "condvarSignal", ok, NoFrame)
    <3>1. \A d \in DeadcomL2 :
            [d EXCEPT !.next_expected_ack = Succ(@), !.last_response = "DC_RESP_OK"]
              \in DeadcomL2
      BY SuccPredType DEF DeadcomL2, LastResponse
    <3>2. dc' \in [Station -> DeadcomL2] BY <2>2, <3>1
    <3>3. thr' \in [Station -> [Thread -> Call]] BY <2>2, SignalType
    <3>4. link' \in [Station -> Seq(Frame)] /\ extFails' \in Nat BY <2>0, <2>2, ProcessType
    <3> QED BY <1>2, <3>2, <3>3, <3>4 DEF ReceiveAck, history
  <2> QED BY <1>2, <2>1, <2>2 DEF ReceiveAck
<1>3. CASE ReceiveNack(s)
  <2>0. link[s] # <<>> BY <1>3, IncomingHead DEF ReceiveNack
  <2>1. CASE Ignore(s) /\ UNCHANGED <<dc, thr>>
    BY <1>3, <1>b, <2>0, <2>1 DEF ReceiveNack, history
  <2>2. CASE /\ dc' = [dc EXCEPT ![s].last_response = "DC_RESP_REJECT"]
             /\ \E ok \in BOOLEAN : Signal(s, ok) /\ Process(s, "condvarSignal", ok, NoFrame)
    <3>1. \A d \in DeadcomL2 : [d EXCEPT !.last_response = "DC_RESP_REJECT"] \in DeadcomL2
      BY DEF DeadcomL2, LastResponse
    <3>2. dc' \in [Station -> DeadcomL2] BY <2>2, <3>1
    <3>3. thr' \in [Station -> [Thread -> Call]] BY <2>2, SignalType
    <3>4. link' \in [Station -> Seq(Frame)] /\ extFails' \in Nat BY <2>0, <2>2, ProcessType
    <3> QED BY <1>3, <3>2, <3>3, <3>4 DEF ReceiveNack, history
  <2> QED BY <1>3, <2>1, <2>2 DEF ReceiveNack
<1>4. CASE ReceiveConn(s)
  <2>0. link[s] # <<>> /\ Head(link[s]) \in Frame BY <1>4, IncomingHead DEF ReceiveConn
  <2>1. CASE Process(s, "transmitBytes", FALSE, NoFrame) /\ UNCHANGED <<dc, thr>>
    <3>1. link' \in [Station -> Seq(Frame)] /\ extFails' \in Nat BY <2>0, <2>1, ProcessType
    <3> QED BY <1>4, <2>1, <3>1 DEF ReceiveConn, history
  <2>2. ASSUME NEW ok \in BOOLEAN,
               Process(s, "condvarSignal", ok, Control("CONN_ACK", 0)),
               dc' = [dc EXCEPT ![s] = ConnAccepted(@)],
               Signal(s, ok) \/ UNCHANGED thr
        PROVE  TypeOK'
    <3>1. Control("CONN_ACK", 0) \in Frame BY <1>d, ZeroType DEF FrameType
    <3>2. link' \in [Station -> Seq(Frame)] /\ extFails' \in Nat
      BY <2>0, <2>2, <3>1, ProcessType
    <3>3. ConnAccepted(dc[s]) \in DeadcomL2 BY <1>0, <2>0, HandlerType
    <3>4. dc' \in [Station -> DeadcomL2] BY <2>2, <3>3
    <3>5. thr' \in [Station -> [Thread -> Call]] BY <2>2, SignalType
    <3> QED BY <1>4, <3>2, <3>4, <3>5 DEF ReceiveConn, history
  <2> QED BY <1>4, <2>1, <2>2 DEF ReceiveConn
<1>5. CASE ReceiveConnAck(s)
  <2>0. link[s] # <<>> BY <1>5, IncomingHead DEF ReceiveConnAck
  <2>1. CASE Ignore(s) /\ UNCHANGED <<dc, thr>>
    BY <1>5, <1>b, <2>0, <2>1 DEF ReceiveConnAck, history
  <2>2. CASE /\ dc' = [dc EXCEPT ![s].last_response = "DC_RESP_OK"]
             /\ \E ok \in BOOLEAN : Signal(s, ok) /\ Process(s, "condvarSignal", ok, NoFrame)
    <3>1. \A d \in DeadcomL2 : [d EXCEPT !.last_response = "DC_RESP_OK"] \in DeadcomL2
      BY DEF DeadcomL2, LastResponse
    <3>2. dc' \in [Station -> DeadcomL2] BY <2>2, <3>1
    <3>3. thr' \in [Station -> [Thread -> Call]] BY <2>2, SignalType
    <3>4. link' \in [Station -> Seq(Frame)] /\ extFails' \in Nat BY <2>0, <2>2, ProcessType
    <3> QED BY <1>5, <3>2, <3>3, <3>4 DEF ReceiveConnAck, history
  <2> QED BY <1>5, <2>1, <2>2 DEF ReceiveConnAck
<1> QED BY <1>1, <1>2, <1>3, <1>4, <1>5 DEF Receive

LEMMA StationType ==
  ASSUME TypeOK, NEW s \in Station, StationStep(s)
  PROVE  TypeOK'
<1> USE DEF TypeOK
<1>0. dc[s] \in DeadcomL2
  OBVIOUS
<1>1. CASE GetSize(s)
  <2>1. msg_len' \in [Station -> Nat]
    <3>1. dc[s].extractionBuffer \in Nat /\ NoMsg \in Nat BY <1>0 DEF DeadcomL2, NoMsg
    <3> QED BY <1>1, <3>1 DEF GetSize
  <2> QED BY <1>1, <2>1 DEF GetSize, history
<1>2. CASE GetMessage(s)
  <2>1. PICK ok \in BOOLEAN :
       /\ Transmit(s, Control("ACK", Pred(dc[s].recv_number)), ok)
       /\ IF ok
            THEN /\ dc' = [dc EXCEPT ![s] = PickedUp(@)]
                 /\ delivered' = [delivered EXCEPT ![s] = Append(@, dc[s].extractionBuffer)]
                 /\ msg_len' = [msg_len EXCEPT ![s] = NoMsg]
            ELSE UNCHANGED <<dc, delivered, msg_len>>
    BY <1>2 DEF GetMessage
  <2>2. Control("ACK", Pred(dc[s].recv_number)) \in Frame
    BY <1>0, FrameFormed, SuccPredType DEF FrameType, DeadcomL2
  <2>3. link' \in [Station -> Seq(Frame)] /\ extFails' \in Nat BY <2>1, <2>2, TransmitType
  <2>4. PickedUp(dc[s]) \in DeadcomL2 BY <1>0, <2>2, HandlerType
  <2>5. Append(delivered[s], dc[s].extractionBuffer) \in Seq(Nat)
    BY <1>0 DEF DeadcomL2
  <2>6. dc' \in [Station -> DeadcomL2] BY <2>1, <2>4
  <2>7. delivered' \in [Station -> Seq(Nat)] BY <2>1, <2>5
  <2>8. msg_len' \in [Station -> Nat]
    <3>1. NoMsg \in Nat BY DEF NoMsg
    <3>2. CASE ok BY <2>1, <3>1, <3>2
    <3>3. CASE ~ok BY <2>1, <3>3
    <3> QED BY <3>2, <3>3
  <2> QED BY <1>2, <2>3, <2>6, <2>7, <2>8 DEF GetMessage
<1>3. CASE Receive(s)
  BY <1>3, ReceiveType
<1>4. CASE LoseFrame(s)
  BY <1>4, TailType DEF LoseFrame, history
<1>5. CASE ForeignNack(s)
  <2>1. Control("NACK", 0) \in Frame BY FrameFormed, ZeroType DEF FrameType
  <2>2. Append(link[s], Control("NACK", 0)) \in Seq(Frame) BY <2>1
  <2> QED BY <1>5, <2>2 DEF ForeignNack, history
<1> QED BY <1>1, <1>2, <1>3, <1>4, <1>5 DEF StationStep

LEMMA TypeNext == TypeOK /\ [Next]_vars => TypeOK'
<1>1. TypeOK /\ UNCHANGED vars => TypeOK'
  BY DEF TypeOK, vars, history
<1> QED BY <1>1, ThreadType, StationType DEF Next

\* Every reachable state is well-typed: whatever is lost, delayed or fails,
\* sequence numbers stay within their field and retries within their limit.
THEOREM TypeCorrect == Spec => []TypeOK
BY TypeInit, TypeNext, PTL DEF Spec
=============================================================================
