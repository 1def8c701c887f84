-------------------------------- MODULE Dcl2 --------------------------------
(***************************************************************************)
(* The DeadCom Layer 2 library (dcl2/lib/src/dcl2.c): two stations, each   *)
(* with one DeadcomL2 structure, joined by a byte link that may lose       *)
(* frames.  Blocking calls (dcConnect, dcSendMessage) run on application   *)
(* threads; dcProcessData runs on the receive thread of the station.       *)
(*                                                                         *)
(* Every call holds the mutex of the structure from its first to its last  *)
(* statement and gives it up only inside condvarWait.  A step of the model *)
(* is therefore what a thread does between two points where the mutex is   *)
(* free: from a call's start to its wait or return, from the end of a wait *)
(* to the next wait or return, and one decoded frame in dcProcessData.     *)
(*                                                                         *)
(* A message is the number k of the k-th dcSendMessage call its station    *)
(* has accepted.  The N(R) field of a DATA frame is never read by the      *)
(* receiver and is left out.                                               *)
(***************************************************************************)
EXTENDS Naturals, Sequences, FiniteSets

CONSTANTS
  Controller, Reader,   \* the two ends of the link
  Thread,               \* application threads of a station
  SeqModulo,            \* 8: sequence numbers live in 3 bits
  MaxFailures,          \* DEADCOM_MAX_FAILURE_COUNT
  MaxSend, MaxConnect,  \* bounds: calls accepted per station
  Failing, MaxExtFail,  \* external methods that may fail; bound: failures in all
  MaxNack,              \* bound: NACK frames from a foreign implementation
  Lossy,                \* may the link lose a frame?
  Delay,                \* what may still be under way when a wait expires
  LateWakeup,           \* may the receive thread get the mutex before an expired
                        \* waiter?  It may; FALSE is an assumption about timing
  Disconnects,          \* do applications call dcDisconnect?
  SizeFirst             \* do readers ask for the size before they copy?

Station == {Controller, Reader}
Peer(s) == IF s = Controller THEN Reader ELSE Controller

SeqNumber == 0 .. SeqModulo - 1
State == {"DC_DISCONNECTED", "DC_CONNECTING", "DC_CONNECTED", "DC_TRANSMITTING"}
LastResponse == {"DC_RESP_OK", "DC_RESP_REJECT", "DC_RESP_NOLINK"}
Result == {"DC_OK", "DC_FAILURE", "DC_NOT_CONNECTED", "DC_LINK_RESET"}
FrameType == {"DATA", "ACK", "NACK", "CONN", "CONN_ACK"}
NoMsg == 0   \* extractionBufferSize = 0

ASSUME StationAssumption == Controller # Reader
ASSUME ParameterAssumption ==
  /\ SeqModulo \in Nat /\ SeqModulo >= 2
  /\ MaxFailures \in Nat /\ MaxFailures >= 1
ASSUME BoundAssumption ==
  /\ MaxSend \in [Station -> Nat] /\ MaxConnect \in [Station -> Nat]
  /\ MaxExtFail \in Nat /\ MaxNack \in Nat
ASSUME EnvironmentAssumption ==
  /\ {Lossy, LateWakeup, Disconnects, SizeFirst} \subseteq BOOLEAN
  /\ Delay \in {"any", "handshake", "none"}
  /\ Failing \subseteq {"transmitBytes", "condvarWait", "condvarSignal"}

VARIABLES
  dc,         \* dc[s]: the DeadcomL2 structure of station s
  thr,        \* thr[s][t]: the call thread t of station s is in, or its last result
  link,       \* link[s]: frames on the wire towards s, oldest first
  msg_len,    \* msg_len[s]: message announced by a size query, NoMsg if none
  sent,       \* sent[s]: messages accepted by dcSendMessage so far
  delivered,  \* delivered[s]: messages picked up at s, in order
  confirmed,  \* confirmed[s]: messages whose dcSendMessage returned DC_OK
  conns, extFails, nacks   \* how much of each bound is used up

history == <<sent, delivered, confirmed>>
vars == <<dc, thr, link, msg_len, history, conns, extFails, nacks>>
-----------------------------------------------------------------------------
(* Sequence numbers and frames *)

Succ(n) == (n + 1) % SeqModulo
\* Variant: the predecessor of 0 is not wrapped.
PredUnwrapped(n) == IF n = 0 THEN 0 ELSE n - 1
Pred(n) == (n + SeqModulo - 1) % SeqModulo

Frame == [frame : FrameType, seq : SeqNumber, msg : Nat]
Data(n, m) == [frame |-> "DATA", seq |-> n, msg |-> m]
Control(type, n) == [frame |-> type, seq |-> n, msg |-> NoMsg]
NoFrame == [frame |-> "none", seq |-> 0, msg |-> NoMsg]

DeadcomL2 ==
  [state : State, send_number : SeqNumber, next_expected_ack : SeqNumber,
   recv_number : SeqNumber, failure_count : 0 .. MaxFailures - 1,
   last_response : LastResponse, extractionBuffer : Nat,
   extractionComplete : BOOLEAN]

\* A thread outside the library remembers what its last call returned; one
\* inside is always in condvarWait when the mutex is free.
Call ==
  [fn : {"none"}, wait : {"none"}, frame : {NoFrame}, ret : Result \cup {"none"}]
  \cup
  [fn : {"dcConnect", "dcSendMessage"}, ret : {"none"}, frame : Frame,
   wait : {"blocked", "signaled", "expired", "failed"}]

\* Variant: next_expected_ack survives the reset.
resetLinkKeepsAck(d) ==
  [d EXCEPT !.send_number = 0, !.recv_number = 0, !.failure_count = 0,
            !.extractionBuffer = NoMsg, !.extractionComplete = FALSE,
            !.state = "DC_DISCONNECTED"]
resetLink(d) ==
  [d EXCEPT !.send_number = 0, !.next_expected_ack = 0, !.recv_number = 0,
            !.failure_count = 0, !.extractionBuffer = NoMsg,
            !.extractionComplete = FALSE, !.state = "DC_DISCONNECTED"]

LinkUp(d) == d.state \in {"DC_CONNECTED", "DC_TRANSMITTING"}
Idle(s, t) == thr[s][t].fn = "none"

Init ==
  /\ dc = [s \in Station |->
             [state |-> "DC_DISCONNECTED", send_number |-> 0, next_expected_ack |-> 0,
              recv_number |-> 0, failure_count |-> 0, last_response |-> "DC_RESP_OK",
              extractionBuffer |-> NoMsg, extractionComplete |-> FALSE]]
  /\ thr = [s \in Station |-> [t \in Thread |->
             [fn |-> "none", wait |-> "none", frame |-> NoFrame, ret |-> "none"]]]
  /\ link = [s \in Station |-> <<>>]
  /\ msg_len = [s \in Station |-> NoMsg]
  /\ sent = [s \in Station |-> 0]
  /\ delivered = [s \in Station |-> <<>>]
  /\ confirmed = [s \in Station |-> {}]
  /\ conns = [s \in Station |-> 0]
  /\ extFails = 0
  /\ nacks = 0
-----------------------------------------------------------------------------
(* External methods, and what every call does at its boundaries *)

\* Outcome of external method m; each failure uses up one unit of the bound.
Ext(m, ok) ==
  IF ok THEN UNCHANGED extFails
        ELSE m \in Failing /\ extFails < MaxExtFail /\ extFails' = extFails + 1

\* transmitBytes puts f on the wire, or reports failure and sends nothing.
Transmit(s, f, ok) ==
  /\ Ext("transmitBytes", ok)
  /\ link' = IF ok THEN [link EXCEPT ![Peer(s)] = Append(@, f)] ELSE link

\* Thread t blocks in condvarWait inside fn, its frame on the stack.
Block(s, t, fn, f) ==
  thr' = [thr EXCEPT ![s][t] = [fn |-> fn, wait |-> "blocked", frame |-> f, ret |-> "none"]]
Return(s, t, r) ==
  thr' = [thr EXCEPT ![s][t] = [fn |-> "none", wait |-> "none", frame |-> NoFrame, ret |-> r]]

\* condvarSignal wakes one waiter; with nobody waiting it is lost.
Signal(s, ok) ==
  LET waiting == {t \in Thread : thr[s][t].wait = "blocked"}
  IN  IF ok /\ waiting # {}
        THEN \E t \in waiting : thr' = [thr EXCEPT ![s][t].wait = "signaled"]
        ELSE UNCHANGED thr
-----------------------------------------------------------------------------
(* dcConnect *)

ConnectRefused(s, t) ==
  /\ Idle(s, t)
  /\ dc[s].state \in {"DC_CONNECTED", "DC_CONNECTING"}
  /\ Return(s, t, IF dc[s].state = "DC_CONNECTED" THEN "DC_OK" ELSE "DC_FAILURE")
  /\ UNCHANGED <<dc, link, msg_len, history, conns, extFails, nacks>>

ConnectStart(s, t) ==
  /\ Idle(s, t)
  /\ dc[s].state \notin {"DC_CONNECTED", "DC_CONNECTING"}
  /\ conns[s] < MaxConnect[s]
  /\ conns' = [conns EXCEPT ![s] = @ + 1]
  /\ \E ok \in BOOLEAN :
       /\ Transmit(s, Control("CONN", 0), ok)
       /\ dc' = [dc EXCEPT ![s].state = IF ok THEN "DC_CONNECTING" ELSE "DC_DISCONNECTED"]
       /\ IF ok THEN Block(s, t, "dcConnect", Control("CONN", 0))
                ELSE Return(s, t, "DC_FAILURE")
  /\ UNCHANGED <<msg_len, history, nacks>>

\* Variant: a timeout is taken for a spurious wakeup and waited out for ever.
ConnectResumeUntimed(s, t) ==
  /\ thr[s][t].fn = "dcConnect"
  /\ thr[s][t].wait = "signaled"
  /\ dc' = [dc EXCEPT ![s] = [resetLink(@) EXCEPT !.state = "DC_CONNECTED"]]
  /\ Return(s, t, "DC_OK")
  /\ UNCHANGED <<link, msg_len, history, conns, extFails, nacks>>

\* After the wait: any signal at all means that the connection is up.
ConnectResume(s, t) ==
  /\ thr[s][t].fn = "dcConnect"
  /\ \/ /\ thr[s][t].wait = "signaled"
        /\ dc' = [dc EXCEPT ![s] = [resetLink(@) EXCEPT !.state = "DC_CONNECTED"]]
        /\ Return(s, t, "DC_OK")
     \/ /\ thr[s][t].wait = "expired"
        /\ dc' = [dc EXCEPT ![s].state = "DC_DISCONNECTED"]
        /\ Return(s, t, "DC_NOT_CONNECTED")
     \/ /\ thr[s][t].wait = "failed"
        /\ dc' = [dc EXCEPT ![s].state = "DC_DISCONNECTED"]
        /\ Return(s, t, "DC_FAILURE")
  /\ UNCHANGED <<link, msg_len, history, conns, extFails, nacks>>
-----------------------------------------------------------------------------
(* dcDisconnect *)

Disconnect(s, t) ==
  /\ Disconnects
  /\ Idle(s, t)
  /\ IF dc[s].state = "DC_CONNECTING"
       THEN Return(s, t, "DC_FAILURE") /\ UNCHANGED dc
       ELSE /\ dc' = [dc EXCEPT ![s].state = "DC_DISCONNECTED"]
            /\ Return(s, t, "DC_OK")
  /\ UNCHANGED <<link, msg_len, history, conns, extFails, nacks>>
-----------------------------------------------------------------------------
(* dcSendMessage *)

\* transmitBytes or condvarWait failed: the message counts as never sent.
RolledBack(d) == [d EXCEPT !.state = "DC_CONNECTED", !.send_number = Pred(@)]

SendRefused(s, t) ==
  /\ Idle(s, t)
  /\ dc[s].state # "DC_CONNECTED"
  /\ Return(s, t, IF dc[s].state = "DC_TRANSMITTING" THEN "DC_FAILURE"
                                                     ELSE "DC_NOT_CONNECTED")
  /\ UNCHANGED <<dc, link, msg_len, history, conns, extFails, nacks>>

\* Variant: a transmission in progress does not keep others out.
MaySendAnytime(d) == LinkUp(d)
MaySend(d) == d.state = "DC_CONNECTED"

SendStart(s, t) ==
  /\ Idle(s, t)
  /\ MaySend(dc[s])
  /\ sent[s] < MaxSend[s]
  /\ sent' = [sent EXCEPT ![s] = @ + 1]
  /\ LET d == [dc[s] EXCEPT !.send_number = Succ(@), !.failure_count = 0,
                            !.state = "DC_TRANSMITTING"]
         f == Data(dc[s].send_number, sent[s] + 1)
     IN  \E ok \in BOOLEAN :
           /\ Transmit(s, f, ok)
           /\ dc' = [dc EXCEPT ![s] = IF ok THEN d ELSE RolledBack(d)]
           /\ IF ok THEN Block(s, t, "dcSendMessage", f) ELSE Return(s, t, "DC_FAILURE")
  /\ UNCHANGED <<msg_len, delivered, confirmed, conns, nacks>>

InSend(s, t, waits) == thr[s][t].fn = "dcSendMessage" /\ thr[s][t].wait \in waits

SendConfirmed(s, t) ==
  /\ InSend(s, t, {"signaled"})
  /\ dc[s].last_response = "DC_RESP_OK"
  /\ dc' = [dc EXCEPT ![s].state = "DC_CONNECTED"]
  /\ confirmed' = [confirmed EXCEPT ![s] = @ \cup {thr[s][t].frame.msg}]
  /\ Return(s, t, "DC_OK")
  /\ UNCHANGED <<link, msg_len, sent, delivered, conns, extFails, nacks>>

\* No usable response: a timeout, or a wakeup for a NACK.  After a timeout the code
\* does not look at last_response, whatever was processed before it had the mutex.
Unanswered(s, t) ==
  \/ InSend(s, t, {"expired"})
  \/ InSend(s, t, {"signaled"}) /\ dc[s].last_response = "DC_RESP_REJECT"

\* Variant: one attempt too many.
LastAttemptLate(d) == d.failure_count >= MaxFailures
LastAttempt(d) == d.failure_count + 1 >= MaxFailures

SendAgain(s, t) ==
  /\ Unanswered(s, t) /\ ~LastAttempt(dc[s])
  /\ LET d == [dc[s] EXCEPT !.failure_count = @ + 1]
     IN  \E ok \in BOOLEAN :
           /\ Transmit(s, thr[s][t].frame, ok)
           /\ dc' = [dc EXCEPT ![s] = IF ok THEN d ELSE RolledBack(d)]
           /\ IF ok THEN Block(s, t, "dcSendMessage", thr[s][t].frame)
                    ELSE Return(s, t, "DC_FAILURE")
  /\ UNCHANGED <<msg_len, history, conns, nacks>>

\* The peer dropped the link, or did not answer the last attempt either.
SendLinkReset(s, t) ==
  /\ \/ InSend(s, t, {"signaled"}) /\ dc[s].last_response = "DC_RESP_NOLINK"
     \/ Unanswered(s, t) /\ LastAttempt(dc[s])
  /\ dc' = [dc EXCEPT ![s] = resetLink(@)]
  /\ Return(s, t, "DC_LINK_RESET")
  /\ UNCHANGED <<link, msg_len, history, conns, extFails, nacks>>

SendWaitFailed(s, t) ==
  /\ InSend(s, t, {"failed"})
  /\ dc' = [dc EXCEPT ![s] = RolledBack(@)]
  /\ Return(s, t, "DC_FAILURE")
  /\ UNCHANGED <<link, msg_len, history, conns, extFails, nacks>>

SendResume(s, t) ==
  SendConfirmed(s, t) \/ SendAgain(s, t) \/ SendLinkReset(s, t) \/ SendWaitFailed(s, t)
-----------------------------------------------------------------------------
(* dcGetReceivedMsg *)

Pending(d) == LinkUp(d) /\ d.extractionComplete
PickedUp(d) == [d EXCEPT !.extractionBuffer = NoMsg, !.extractionComplete = FALSE]

\* A call that finds the link down or nothing pending, and one with buffer = NULL.
GetSize(s) ==
  /\ SizeFirst
  /\ msg_len' = [msg_len EXCEPT ![s] = IF Pending(dc[s]) THEN dc[s].extractionBuffer ELSE NoMsg]
  /\ UNCHANGED <<dc, thr, link, history, conns, extFails, nacks>>

GetMessage(s) ==
  /\ Pending(dc[s])
  /\ \E ok \in BOOLEAN :
       /\ Transmit(s, Control("ACK", Pred(dc[s].recv_number)), ok)
       /\ IF ok
            THEN /\ dc' = [dc EXCEPT ![s] = PickedUp(@)]
                 /\ delivered' = [delivered EXCEPT ![s] = Append(@, dc[s].extractionBuffer)]
                 /\ msg_len' = [msg_len EXCEPT ![s] = NoMsg]
            ELSE UNCHANGED <<dc, delivered, msg_len>>
  /\ UNCHANGED <<thr, sent, confirmed, conns, nacks>>
-----------------------------------------------------------------------------
(* dcProcessData, one decoded frame *)

\* The next frame is of this type.  The code takes it whenever the mutex is free:
\* that is LateWakeup.  Without LateWakeup more is assumed than the code guarantees,
\* that a waiter whose wait is over has the mutex again before the next frame.
Incoming(s, type) ==
  /\ link[s] # <<>>
  /\ Head(link[s]).frame = type
  /\ LateWakeup \/ \A t \in Thread : thr[s][t].wait \notin {"expired", "failed"}

\* The head frame leaves the wire; reply, if any, goes to the peer.  When external
\* method m fails the call returns, and what else its chunk held is discarded.
Process(s, m, ok, reply) ==
  /\ Ext(m, ok)
  /\ \E n \in (IF ok THEN {2} ELSE 2 .. Len(link[s]) + 1) :
       link' = [link EXCEPT ![s] = SubSeq(@, n, Len(@)),
                            ![Peer(s)] = IF reply = NoFrame THEN @ ELSE Append(@, reply)]
Ignore(s) == link' = [link EXCEPT ![s] = Tail(@)] /\ UNCHANGED extFails

\* Variant: neither the number nor the pending message is looked at.
AcceptsAnyData(d, f) == LinkUp(d)
AcceptsData(d, f) ==
  LinkUp(d) /\ f.seq = d.recv_number /\ d.extractionBuffer = NoMsg
\* Variant: recv_number is not advanced.
StoredUncounted(d, f) ==
  [d EXCEPT !.extractionBuffer = f.msg, !.extractionComplete = TRUE]
Stored(d, f) ==
  [d EXCEPT !.extractionBuffer = f.msg, !.extractionComplete = TRUE,
            !.recv_number = Succ(@)]

\* Variant: a frame whose message is still pending is acknowledged too.
AcksPending(d, f) == LinkUp(d) /\ Succ(f.seq) = d.recv_number
\* The frame was picked up before, so the acknowledgement must have been lost.
AcksAgain(d, f) ==
  LinkUp(d) /\ ~d.extractionComplete /\ Succ(f.seq) = d.recv_number

ReceiveData(s) ==
  /\ Incoming(s, "DATA")
  /\ LET d == dc[s]
         f == Head(link[s])
     IN  \/ /\ AcceptsData(d, f)
            /\ Ignore(s)
            /\ dc' = [dc EXCEPT ![s] = Stored(d, f)]
         \/ /\ AcksAgain(d, f)
            /\ \E ok \in BOOLEAN :
                 Process(s, "transmitBytes", ok,
                         IF ok THEN Control("ACK", Pred(d.recv_number)) ELSE NoFrame)
            /\ UNCHANGED dc
         \/ /\ ~AcceptsData(d, f) /\ ~AcksAgain(d, f)
            /\ Ignore(s)
            /\ UNCHANGED dc
  /\ UNCHANGED <<thr, msg_len, history, conns, nacks>>

ReceiveAck(s) ==
  /\ Incoming(s, "ACK")
  /\ IF dc[s].state = "DC_TRANSMITTING" /\ Head(link[s]).seq = dc[s].next_expected_ack
       THEN /\ dc' = [dc EXCEPT ![s].next_expected_ack = Succ(@),
                                ![s].last_response = "DC_RESP_OK"]
            /\ \E ok \in BOOLEAN : Signal(s, ok) /\ Process(s, "condvarSignal", ok, NoFrame)
       ELSE Ignore(s) /\ UNCHANGED <<dc, thr>>
  /\ UNCHANGED <<msg_len, history, conns, nacks>>

ReceiveNack(s) ==
  /\ Incoming(s, "NACK")
  /\ IF dc[s].state = "DC_TRANSMITTING"
       THEN /\ dc' = [dc EXCEPT ![s].last_response = "DC_RESP_REJECT"]
            /\ \E ok \in BOOLEAN : Signal(s, ok) /\ Process(s, "condvarSignal", ok, NoFrame)
       ELSE Ignore(s) /\ UNCHANGED <<dc, thr>>
  /\ UNCHANGED <<msg_len, history, conns, nacks>>

\* Variant: the transmitting thread is woken without being told why.
ConnAcceptedQuietly(d) ==
  [resetLink(d) EXCEPT
     !.state = IF d.state = "DC_CONNECTING" THEN "DC_CONNECTING" ELSE "DC_CONNECTED"]
\* The structure once a CONN has been answered: a connecting station leaves the
\* transition to its connect thread, a transmitting one learns that the link went.
ConnAccepted(d) ==
  [resetLink(d) EXCEPT
     !.state = IF d.state = "DC_CONNECTING" THEN "DC_CONNECTING" ELSE "DC_CONNECTED",
     !.last_response = CASE d.state = "DC_TRANSMITTING" -> "DC_RESP_NOLINK"
                         [] d.state = "DC_CONNECTING" -> "DC_RESP_OK"
                         [] OTHER -> @]

ReceiveConn(s) ==
  /\ Incoming(s, "CONN")
  /\ \/ \E ok \in BOOLEAN :
          /\ Process(s, "condvarSignal", ok, Control("CONN_ACK", 0))
          /\ dc' = [dc EXCEPT ![s] = ConnAccepted(@)]
          /\ IF dc[s].state \in {"DC_TRANSMITTING", "DC_CONNECTING"}
               THEN Signal(s, ok)
               ELSE ok /\ UNCHANGED thr
     \/ Process(s, "transmitBytes", FALSE, NoFrame) /\ UNCHANGED <<dc, thr>>
  /\ UNCHANGED <<msg_len, history, conns, nacks>>

ReceiveConnAck(s) ==
  /\ Incoming(s, "CONN_ACK")
  /\ IF dc[s].state = "DC_CONNECTING"
       THEN /\ dc' = [dc EXCEPT ![s].last_response = "DC_RESP_OK"]
            /\ \E ok \in BOOLEAN : Signal(s, ok) /\ Process(s, "condvarSignal", ok, NoFrame)
       ELSE Ignore(s) /\ UNCHANGED <<dc, thr>>
  /\ UNCHANGED <<msg_len, history, conns, nacks>>

Receive(s) ==
  \/ ReceiveData(s) \/ ReceiveAck(s) \/ ReceiveNack(s)
  \/ ReceiveConn(s) \/ ReceiveConnAck(s)
-----------------------------------------------------------------------------
(* The environment: time, the wire, a foreign peer *)

OnWire(s, type) == \E i \in 1 .. Len(link[s]) : link[s][i].frame = type

\* "any": no bound on delays.  "handshake": a CONN that is not lost has been
\* answered and the answer received within a timeout of its transmission, so
\* neither is on the wire when a later wait of that station expires.  "none":
\* so have a message, its pick-up and its acknowledgement.
Overdue(s, t) ==
  CASE Delay = "any" -> TRUE
    [] Delay = "handshake" -> ~OnWire(Peer(s), "CONN") /\ ~OnWire(s, "CONN_ACK")
    [] Delay = "none" ->
         /\ \A q \in Station : link[q] = <<>>
         /\ dc[Peer(s)].extractionBuffer = NoMsg
         /\ \A u \in Thread : thr[Peer(s)][u].wait # "signaled"

Expire(s, t) ==
  /\ thr[s][t].wait = "blocked"
  /\ Overdue(s, t)
  /\ thr' = [thr EXCEPT ![s][t].wait = "expired"]
  /\ UNCHANGED <<dc, link, msg_len, history, conns, extFails, nacks>>

WaitFails(s, t) ==
  /\ thr[s][t].wait = "blocked"
  /\ Ext("condvarWait", FALSE)
  /\ thr' = [thr EXCEPT ![s][t].wait = "failed"]
  /\ UNCHANGED <<dc, link, msg_len, history, conns, nacks>>

LoseFrame(s) ==
  /\ Lossy
  /\ link[s] # <<>>
  /\ link' = [link EXCEPT ![s] = Tail(@)]
  /\ UNCHANGED <<dc, thr, msg_len, history, conns, extFails, nacks>>

\* This library never sends a NACK, the protocol lets a peer do so.
ForeignNack(s) ==
  /\ nacks < MaxNack
  /\ nacks' = nacks + 1
  /\ link' = [link EXCEPT ![s] = Append(@, Control("NACK", 0))]
  /\ UNCHANGED <<dc, thr, msg_len, history, conns, extFails>>
-----------------------------------------------------------------------------
ThreadStep(s, t) ==
  \/ ConnectRefused(s, t) \/ ConnectStart(s, t) \/ ConnectResume(s, t)
  \/ Disconnect(s, t)
  \/ SendRefused(s, t) \/ SendStart(s, t) \/ SendResume(s, t)
  \/ Expire(s, t) \/ WaitFails(s, t)

StationStep(s) ==
  GetSize(s) \/ GetMessage(s) \/ Receive(s) \/ LoseFrame(s) \/ ForeignNack(s)

Next ==
  \E s \in Station : StationStep(s) \/ \E t \in Thread : ThreadStep(s, t)

Spec == Init /\ [][Next]_vars

\* condvarWait returns within its timeout, and a thread whose wait is over gets
\* the mutex and the processor.
WaitsEnd ==
  \A s \in Station : \A t \in Thread :
    WF_vars(Expire(s, t)) /\ WF_vars(ConnectResume(s, t) \/ SendResume(s, t))
LiveSpec == Spec /\ WaitsEnd

\* The receive thread feeds what arrives to dcProcessData and the application
\* picks up what is pending.
Served ==
  \A s \in Station : WF_vars(Receive(s)) /\ WF_vars(GetMessage(s))
ServedSpec == LiveSpec /\ Served
-----------------------------------------------------------------------------
(* Type invariant *)

\* Every variable stays in its domain: sequence numbers within 3 bits whatever
\* is incremented, rolled back or reset, and the stack frame of every thread.
TypeOK ==
  /\ dc \in [Station -> DeadcomL2]
  /\ thr \in [Station -> [Thread -> Call]]
  /\ link \in [Station -> Seq(Frame)]
  /\ msg_len \in [Station -> Nat]
  /\ sent \in [Station -> Nat]
  /\ delivered \in [Station -> Seq(Nat)]
  /\ confirmed \in [Station -> SUBSET Nat]
  /\ conns \in [Station -> Nat]
  /\ extFails \in Nat
  /\ nacks \in Nat
-----------------------------------------------------------------------------
(* Safety *)

\* Messages are picked up in the order in which they were sent and none is
\* picked up twice, although frames are repeated, sequence numbers wrap and resets
\* restart them (README.rst: "reliable datagram communication").  This rests on an
\* expired waiter running before the next frame is processed: with LateWakeup a CONN
\* can start a new session behind the back of a sender that then repeats its frame.
AtMostOnce ==
  \A s \in Station : \A i, j \in 1 .. Len(delivered[s]) :
    i < j => delivered[s][i] < delivered[s][j]

\* dcSendMessage returns DC_OK only for a message the other application has
\* picked up (py-api.rst: "some upper layer at the other side picked it up").  Claimed
\* under the hypotheses of Timely (Dcl2Session), no failing method among them: a failing
\* transmission of a repetition lets a message be acknowledged unread.
ConfirmedPickedUp ==
  \A s \in Station : \A m \in confirmed[s] :
    \E i \in 1 .. Len(delivered[Peer(s)]) : delivered[Peer(s)][i] = m

\* Two connected stations with nobody in a call and nothing on the wire agree
\* on the next sequence number in both directions.
Quiescent ==
  \A s \in Station :
    /\ dc[s].state = "DC_CONNECTED" /\ link[s] = <<>>
    /\ \A t \in Thread : Idle(s, t)
SequenceAgreement ==
  Quiescent =>
    \A s \in Station :
      /\ dc[s].send_number = dc[Peer(s)].recv_number
      /\ dc[s].next_expected_ack = dc[s].send_number

\* At most one thread of a station is in dcSendMessage: they share send_number,
\* last_response and the one condition variable.  Claimed for one session: with two
\* connection attempts a reset lets a second thread in.
OneSender ==
  \A s \in Station : \A t, u \in Thread :
    thr[s][t].fn = "dcSendMessage" /\ thr[s][u].fn = "dcSendMessage" => t = u

\* A copy that succeeds after a size query copies the message whose size the
\* query announced (dcl2.h: "copy the whole message with length as returned").
\* Claimed for one session: a CONN in between removes the message.
CopiesAnnounced ==
  [][\A s \in Station :
       delivered'[s] # delivered[s] /\ msg_len[s] # NoMsg
         => delivered'[s][Len(delivered'[s])] = msg_len[s]]_vars
-----------------------------------------------------------------------------
(* Refinement *)

Service == INSTANCE LinkService

\* Whatever is lost, late, repeated, given up or reset, what the applications see is the
\* service, as long as expired waiters run promptly and signals succeed (as for
\* AtMostOnce): each step of the stations is one of the service or none at all.
ImplementsService == Service!Spec

\* With answers that are not older than a timeout it is the service that confirms a
\* message only after it was picked up.
ImplementsReliableService == Service!ReliableSpec
-----------------------------------------------------------------------------
(* Liveness *)

\* Every blocking call returns.
CallsReturn ==
  \A s \in Station : \A t \in Thread : ~Idle(s, t) ~> Idle(s, t)

\* Every message dcSendMessage accepted is picked up and confirmed.
AcceptedConfirmed ==
  \A s \in Station : \A m \in 1 .. MaxSend[s] :
    sent[s] >= m ~> m \in confirmed[s]
=============================================================================
